---- MODULE Spec2Model ----
(***************************************************************************)
(* State-machine model of the spend-draft construction step of the wallet  *)
(* GUI (gui/src/app/state/spend/step.rs): DefineSpend, Recipient and the   *)
(* TransactionDraft handoff.                                               *)
(*                                                                         *)
(* Texts typed by the user (feerate, amount) are sequences of one-char     *)
(* strings and are parsed digit by digit as the library parsers do.        *)
(* u64 values are little-endian sequences of 16-bit limbs without leading  *)
(* zero limbs (zero is << >>), so that the 64-bit width of the program's   *)
(* arithmetic is kept exactly.                                             *)
(***************************************************************************)
EXTENDS Integers, Sequences, FiniteSets, TLC

\* ------------------------------------------------------------------------
\* Bounds of the model
\* ------------------------------------------------------------------------
MaxRecipients == 2

\* ------------------------------------------------------------------------
\* Option / Result values
\* ------------------------------------------------------------------------
None == [some |-> FALSE]
Some(v) == [some |-> TRUE, val |-> v]
Ok(v) == [ok |-> TRUE, val |-> v]
Err(e) == [ok |-> FALSE, err |-> e]

\* ------------------------------------------------------------------------
\* Unsigned integers of arbitrary size as limb sequences, and u64 on top
\* ------------------------------------------------------------------------
LimbBase == 256 * 256
U64Limbs == 64 \div 16

Max(a, b) == IF a >= b THEN a ELSE b
Min(a, b) == IF a <= b THEN a ELSE b

RECURSIVE Norm(_)
Norm(x) ==
    IF x = <<>> THEN <<>>
    ELSE IF x[Len(x)] = 0 THEN Norm(SubSeq(x, 1, Len(x) - 1)) ELSE x

\* a natural below 2^31 as limbs
Big(n) == Norm(<<n % LimbBase, n \div LimbBase>>)

Limb(x, i) == IF i <= Len(x) THEN x[i] ELSE 0

RECURSIVE AddFrom(_, _, _, _)
AddFrom(x, y, i, c) ==
    IF i > Max(Len(x), Len(y))
    THEN (IF c = 0 THEN <<>> ELSE <<c>>)
    ELSE LET s == Limb(x, i) + Limb(y, i) + c
         IN  <<s % LimbBase>> \o AddFrom(x, y, i + 1, s \div LimbBase)

\* exact sum
BigAdd(x, y) == Norm(AddFrom(x, y, 1, 0))

RECURSIVE MulFrom(_, _, _, _)
MulFrom(x, k, i, c) ==
    IF i > Len(x)
    THEN (IF c = 0 THEN <<>> ELSE <<c>>)
    ELSE LET p == x[i] * k + c
         IN  <<p % LimbBase>> \o MulFrom(x, k, i + 1, p \div LimbBase)

\* exact product with a small factor (k < 2^14)
BigMulSmall(x, k) == Norm(MulFrom(x, k, 1, 0))

RECURSIVE LessFrom(_, _, _)
LessFrom(x, y, i) ==
    IF i = 0 THEN FALSE
    ELSE IF Limb(x, i) # Limb(y, i) THEN Limb(x, i) < Limb(y, i)
    ELSE LessFrom(x, y, i - 1)

BigLess(x, y) == LessFrom(x, y, Max(Len(x), Len(y)))
BigLeq(x, y) == ~BigLess(y, x)

RECURSIVE SubFrom(_, _, _, _)
SubFrom(x, y, i, b) ==
    IF i > Len(x) THEN <<>>
    ELSE LET d == x[i] - Limb(y, i) - b
         IN  IF d < 0 THEN <<d + LimbBase>> \o SubFrom(x, y, i + 1, 1)
             ELSE <<d>> \o SubFrom(x, y, i + 1, 0)

\* exact difference, for y <= x
BigSub(x, y) == Norm(SubFrom(x, y, 1, 0))

FitsU64(x) == Len(x) <= U64Limbs
\* the value modulo 2^64
WrapU64(x) == Norm(SubSeq(x, 1, Min(Len(x), U64Limbs)))

\* u64::saturating_sub
saturating_sub(a, b) == IF BigLess(a, b) THEN <<>> ELSE BigSub(a, b)

\* u64::checked_mul by a small factor and u64::checked_add
checked_mul(x, k) ==
    LET p == BigMulSmall(x, k) IN IF FitsU64(p) THEN Some(p) ELSE None
checked_add(x, y) ==
    LET s == BigAdd(x, y) IN IF FitsU64(s) THEN Some(s) ELSE None

U64_MAX == <<LimbBase - 1, LimbBase - 1, LimbBase - 1, LimbBase - 1>>
I64_MAX == <<LimbBase - 1, LimbBase - 1, LimbBase - 1, (LimbBase \div 2) - 1>>

\* ------------------------------------------------------------------------
\* Texts and the library parsers
\* ------------------------------------------------------------------------
DigitChars == {"0", "1", "2", "3", "4", "5", "6", "7", "8", "9"}
DigitVal(c) ==
    CASE c = "0" -> 0 [] c = "1" -> 1 [] c = "2" -> 2 [] c = "3" -> 3
      [] c = "4" -> 4 [] c = "5" -> 5 [] c = "6" -> 6 [] c = "7" -> 7
      [] c = "8" -> 8 [] c = "9" -> 9

\* value = 10 * value + digit, catching overflows
PushDigit(value, c) ==
    LET m == checked_mul(value, 10)
    IN  IF ~m.some THEN None ELSE checked_add(m.val, Big(DigitVal(c)))

RECURSIVE ParseDigits(_, _, _)
ParseDigits(s, i, value) ==
    IF i > Len(s) THEN Ok(value)
    ELSE IF s[i] \notin DigitChars THEN Err("InvalidDigit")
    ELSE LET v == PushDigit(value, s[i])
         IN  IF ~v.some THEN Err("PosOverflow")
             ELSE ParseDigits(s, i + 1, v.val)

\* str::parse::<u64>
parse_u64(s) ==
    IF s = <<>> THEN Err("Empty")
    ELSE IF s[1] \in {"+", "-"} /\ Len(s) = 1 THEN Err("InvalidDigit")
    ELSE IF s[1] = "+" THEN ParseDigits(s, 2, <<>>)
    ELSE ParseDigits(s, 1, <<>>)

\* Denomination::Bitcoin: 8 decimals between the unit and the satoshi
MAX_DECIMALS == 8
\* the longest amount text the library parses
MAX_AMOUNT_LEN == 50
NoDecimals == 0 - 1

RECURSIVE ScaleUp(_, _)
ScaleUp(value, n) ==
    IF n = 0 THEN Ok(value)
    ELSE LET m == checked_mul(value, 10)
         IN  IF ~m.some THEN Err("TooBig") ELSE ScaleUp(m.val, n - 1)

RECURSIVE ParseAmountChars(_, _, _, _)
ParseAmountChars(s, i, value, decimals) ==
    IF i > Len(s)
    THEN ScaleUp(value, MAX_DECIMALS - Max(decimals, 0))
    ELSE IF s[i] \in DigitChars
    THEN LET v == PushDigit(value, s[i])
         IN  IF ~v.some THEN Err("TooBig")
             ELSE IF decimals = NoDecimals
             THEN ParseAmountChars(s, i + 1, v.val, NoDecimals)
             ELSE IF decimals < MAX_DECIMALS
             THEN ParseAmountChars(s, i + 1, v.val, decimals + 1)
             ELSE Err("TooPrecise")
    ELSE IF s[i] = "."
    THEN IF decimals = NoDecimals
         THEN ParseAmountChars(s, i + 1, value, 0)
         ELSE Err("InvalidFormat")
    ELSE Err("InvalidCharacter")

\* Amount::from_str_in(text, Denomination::Bitcoin), in satoshis
Amount_from_str_in(s) ==
    IF s = <<>> THEN Err("InvalidFormat")
    ELSE IF Len(s) > MAX_AMOUNT_LEN THEN Err("InputTooLarge")
    ELSE IF s[1] = "-"
    THEN (IF Len(s) = 1 THEN Err("InvalidFormat")
          ELSE LET r == ParseAmountChars(Tail(s), 1, <<>>, NoDecimals)
               IN  IF r.ok THEN Err("Negative") ELSE r)
    ELSE LET r == ParseAmountChars(s, 1, <<>>, NoDecimals)
         IN  IF r.ok /\ BigLess(I64_MAX, r.val) THEN Err("TooBig") ELSE r

\* ------------------------------------------------------------------------
\* Addresses.  The base58/bech32 decoder is modelled by its result on a
\* table of encodings: two encodings of one address (bech32 is case
\* insensitive), an address of each script kind, an address of another
\* network; every other text fails to decode.
\* ------------------------------------------------------------------------
Address_from_str(text) ==
    CASE text = "bc1qa" -> Ok([network |-> "bitcoin", kind |-> "p2wpkh", hash |-> "a"])
      [] text = "BC1QA" -> Ok([network |-> "bitcoin", kind |-> "p2wpkh", hash |-> "a"])
      [] text = "bc1qb" -> Ok([network |-> "bitcoin", kind |-> "p2wpkh", hash |-> "b"])
      [] text = "1pkh"  -> Ok([network |-> "bitcoin", kind |-> "p2pkh", hash |-> "c"])
      [] text = "3sh"   -> Ok([network |-> "bitcoin", kind |-> "p2sh", hash |-> "d"])
      [] text = "bc1pt" -> Ok([network |-> "bitcoin", kind |-> "p2tr", hash |-> "e"])
      [] text = "tb1qa" -> Ok([network |-> "testnet", kind |-> "p2wpkh", hash |-> "a"])
      [] text = "mpkh"  -> Ok([network |-> "testnet", kind |-> "p2pkh", hash |-> "c"])
      [] OTHER -> Err("address decoding")

\* Address::is_valid_for_network
is_valid_for_network(address, network) ==
    LET is_legacy == address.kind \in {"p2pkh", "p2sh"}
    IN  IF address.network = network THEN TRUE
        ELSE IF address.network = "bitcoin" \/ network = "bitcoin" THEN FALSE
        ELSE IF (address.network = "regtest" \/ network = "regtest") /\ ~is_legacy
        THEN FALSE
        ELSE TRUE

\* length of Address::script_pubkey()
script_len(address) ==
    CASE address.kind = "p2pkh" -> 25
      [] address.kind = "p2sh" -> 23
      [] address.kind = "p2wpkh" -> 22
      [] address.kind \in {"p2wsh", "p2tr"} -> 34

is_witness_program(address) == address.kind \in {"p2wpkh", "p2wsh", "p2tr"}

\* length of a CompactSize (VarInt)
VarIntLen(n) == IF n < 253 THEN 1 ELSE IF n < 65536 THEN 3 ELSE 5

\* Script::dust_value() of the address's script, in satoshis:
\* 3 sat/vbyte on the cost of creating and spending the output
dust_value(address) ==
    LET l == script_len(address)
    IN  IF is_witness_program(address)
        THEN 3 * (32 + 4 + 1 + (107 \div 4) + 4 + 8 + VarIntLen(l) + l)
        ELSE 3 * (32 + 4 + 1 + 107 + 4 + 8 + VarIntLen(l) + l)

\* ------------------------------------------------------------------------
\* Recipient
\* ------------------------------------------------------------------------
DUST_OUTPUT_SATS == 5000

\* form::Value<String>::default()
FormValueDefault(empty) == [value |-> empty, valid |-> TRUE]
\* Recipient::default()
RecipientDefault == [address |-> FormValueDefault(""), amount |-> FormValueDefault(<<>>)]

\* a mutation of Recipient::amount: the floor test is <= DUST_OUTPUT_SATS
Recipient_amount_floor_inclusive(r) ==
    IF r.amount.value = <<>> THEN Err("Amount should be non-zero")
    ELSE LET amount == Amount_from_str_in(r.amount.value)
             address == Address_from_str(r.address.value)
         IN  IF ~amount.ok THEN Err("cannot parse output amount")
             ELSE IF amount.val = <<>> THEN Err("Amount should be non-zero")
             ELSE IF BigLeq(amount.val, Big(DUST_OUTPUT_SATS))
             THEN Err("Amount should be non-zero")
             ELSE IF address.ok /\ BigLeq(amount.val, Big(dust_value(address.val)))
             THEN Err("Amount must be superior to script dust value")
             ELSE Ok(amount.val)

\* a mutation of Recipient::amount: the DUST_OUTPUT_SATS floor is missing
Recipient_amount_without_floor(r) ==
    IF r.amount.value = <<>> THEN Err("Amount should be non-zero")
    ELSE LET amount == Amount_from_str_in(r.amount.value)
             address == Address_from_str(r.address.value)
         IN  IF ~amount.ok THEN Err("cannot parse output amount")
             ELSE IF amount.val = <<>> THEN Err("Amount should be non-zero")
             ELSE IF address.ok /\ BigLeq(amount.val, Big(dust_value(address.val)))
             THEN Err("Amount must be superior to script dust value")
             ELSE Ok(amount.val)

\* Recipient::amount
Recipient_amount(r) ==
    IF r.amount.value = <<>> THEN Err("Amount should be non-zero")
    ELSE LET amount == Amount_from_str_in(r.amount.value)
             address == Address_from_str(r.address.value)
         IN  IF ~amount.ok THEN Err("cannot parse output amount")
             ELSE IF amount.val = <<>> THEN Err("Amount should be non-zero")
             ELSE IF BigLess(amount.val, Big(DUST_OUTPUT_SATS))
             THEN Err("Amount should be non-zero")
             ELSE IF address.ok /\ BigLeq(amount.val, Big(dust_value(address.val)))
             THEN Err("Amount must be superior to script dust value")
             ELSE Ok(amount.val)

\* a mutation of Recipient::valid: only the flags are read
Recipient_valid_flags_only(r) == r.address.valid /\ r.amount.valid

\* Recipient::valid
Recipient_valid(r) ==
    /\ r.address.value # ""
    /\ r.address.valid
    /\ r.amount.value # <<>>
    /\ r.amount.valid

\* a mutation of Recipient::update: the branch for the emptied address is
\* missing, every text that fails to parse is flagged
Recipient_update_address_empty_flagged(r, network, text) ==
    LET r1 == [r EXCEPT !.address.value = text]
        address == Address_from_str(text)
    IN  IF address.ok
        THEN LET r2 == [r1 EXCEPT !.address.valid =
                                     is_valid_for_network(address.val, network)]
             IN  IF r2.amount.value # <<>>
                 THEN [r2 EXCEPT !.amount.valid = Recipient_amount(r2).ok]
                 ELSE r2
        ELSE [r1 EXCEPT !.address.valid = FALSE]

\* a mutation of Recipient::update: the network is not looked at, every
\* address that parses is accepted
Recipient_update_address_any_network(r, network, text) ==
    LET r1 == [r EXCEPT !.address.value = text]
        address == Address_from_str(text)
    IN  IF address.ok
        THEN LET r2 == [r1 EXCEPT !.address.valid = TRUE]
             IN  IF r2.amount.value # <<>>
                 THEN [r2 EXCEPT !.amount.valid = Recipient_amount(r2).ok]
                 ELSE r2
        ELSE IF text = ""
        THEN [r1 EXCEPT !.address.valid = TRUE]
        ELSE [r1 EXCEPT !.address.valid = FALSE]

\* Recipient::update, message RecipientEdited(_, "address", text)
Recipient_update_address(r, network, text) ==
    LET r1 == [r EXCEPT !.address.value = text]
        address == Address_from_str(text)
    IN  IF address.ok
        THEN LET r2 == [r1 EXCEPT !.address.valid =
                                     is_valid_for_network(address.val, network)]
             IN  IF r2.amount.value # <<>>
                 THEN [r2 EXCEPT !.amount.valid = Recipient_amount(r2).ok]
                 ELSE r2
        ELSE IF text = ""
        THEN [r1 EXCEPT !.address.valid = TRUE]
        ELSE [r1 EXCEPT !.address.valid = FALSE]

\* a mutation of Recipient::update: the amount typed is not validated, its
\* flag is set whatever the text
Recipient_update_amount_unchecked(r, text) ==
    [r EXCEPT !.amount.value = text, !.amount.valid = TRUE]

\* Recipient::update, message RecipientEdited(_, "amount", text)
Recipient_update_amount(r, text) ==
    LET r1 == [r EXCEPT !.amount.value = text]
    IN  IF text # <<>>
        THEN [r1 EXCEPT !.amount.valid = Recipient_amount(r1).ok]
        ELSE [r1 EXCEPT !.amount.valid = TRUE]

\* ------------------------------------------------------------------------
\* DefineSpend
\* ------------------------------------------------------------------------
\* a mutation of the filter of DefineSpend::new: every coin is kept
UnspentCoins_unfiltered(q) == q

\* the coins whose spend_info is none, in order
RECURSIVE UnspentCoins(_)
UnspentCoins(q) ==
    IF q = <<>> THEN <<>>
    ELSE (IF ~Head(q).spend_info THEN <<Head(q)>> ELSE <<>>) \o UnspentCoins(Tail(q))

\* the coins flagged selected, in order
RECURSIVE SelectedCoins(_)
SelectedCoins(cs) ==
    IF cs = <<>> THEN <<>>
    ELSE (IF Head(cs).selected THEN <<Head(cs).coin>> ELSE <<>>)
         \o SelectedCoins(Tail(cs))

\* Iterator::sum over u64 values: the exact sum, the caller wraps or panics
RECURSIVE SumSeq(_)
SumSeq(q) == IF q = <<>> THEN <<>> ELSE BigAdd(Head(q), SumSeq(Tail(q)))

\* daemon::model::remaining_sequence
remaining_sequence(coin, blockheight, timelock) ==
    IF coin.block_height.some
    THEN IF blockheight > coin.block_height.val + timelock
         THEN 0
         ELSE coin.block_height.val + timelock - blockheight
    ELSE timelock

\* Option<i32>::cmp on block heights: None is the smallest
OptionLess(a, b) ==
    IF ~a.some THEN b.some
    ELSE b.some /\ a.val < b.val

\* the comparator of coins.sort_by: TRUE iff it answers Ordering::Less
coin_is_less(a, b, blockheight, timelock) ==
    IF remaining_sequence(a.coin, blockheight, timelock)
         = remaining_sequence(b.coin, blockheight, timelock)
    THEN BigLess(b.coin.amount, a.coin.amount)
    ELSE OptionLess(a.coin.block_height, b.coin.block_height)

\* slice::sort_by on a short slice: insertion sort from the right, each
\* head moved right past the elements that are less than it
RECURSIVE InsertHead(_, _, _, _)
InsertHead(h, rest, blockheight, timelock) ==
    IF rest # <<>> /\ coin_is_less(Head(rest), h, blockheight, timelock)
    THEN <<Head(rest)>> \o InsertHead(h, Tail(rest), blockheight, timelock)
    ELSE <<h>> \o rest

RECURSIVE sort_by(_, _, _)
sort_by(v, blockheight, timelock) ==
    IF Len(v) <= 1 THEN v
    ELSE InsertHead(Head(v), sort_by(Tail(v), blockheight, timelock),
                    blockheight, timelock)

AmountOf(q) == [i \in 1..Len(q) |-> q[i].amount]
Unselected(q) == [i \in 1..Len(q) |-> [coin |-> q[i], selected |-> FALSE]]

\* a mutation of DefineSpend::new: the balance is the sum over every coin
\* given, spent or not
DefineSpend_new_balance_of_all(desc, coin_list, tl, blockheight) ==
    [ balance_available |-> WrapU64(SumSeq(AmountOf(coin_list))),
      descriptor |-> desc,
      timelock |-> tl,
      generated |-> None,
      coins |-> sort_by(Unselected(UnspentCoins(coin_list)), blockheight, tl),
      recipients |-> <<RecipientDefault>>,
      is_valid |-> FALSE,
      is_duplicate |-> FALSE,
      feerate |-> FormValueDefault(<<>>),
      amount_left_to_select |-> None,
      warning |-> None,
      panicked |-> FALSE ]

\* a mutation of DefineSpend::new: the recipient list starts empty
DefineSpend_new_no_recipient(desc, coin_list, tl, blockheight) ==
    [ balance_available |-> WrapU64(SumSeq(AmountOf(UnspentCoins(coin_list)))),
      descriptor |-> desc,
      timelock |-> tl,
      generated |-> None,
      coins |-> sort_by(Unselected(UnspentCoins(coin_list)), blockheight, tl),
      recipients |-> <<>>,
      is_valid |-> FALSE,
      is_duplicate |-> FALSE,
      feerate |-> FormValueDefault(<<>>),
      amount_left_to_select |-> None,
      warning |-> None,
      panicked |-> FALSE ]

\* DefineSpend::new
DefineSpend_new(desc, coin_list, tl, blockheight) ==
    [ balance_available |-> WrapU64(SumSeq(AmountOf(UnspentCoins(coin_list)))),
      descriptor |-> desc,
      timelock |-> tl,
      generated |-> None,
      coins |-> sort_by(Unselected(UnspentCoins(coin_list)), blockheight, tl),
      recipients |-> <<RecipientDefault>>,
      is_valid |-> FALSE,
      is_duplicate |-> FALSE,
      feerate |-> FormValueDefault(<<>>),
      amount_left_to_select |-> None,
      warning |-> None,
      panicked |-> FALSE ]

\* a mutation of IsDuplicateOf: the slice compared against is
\* recipients[..=i], which holds recipient i itself
IsDuplicateOf_inclusive(rs, i) ==
    \E j \in 1..i : rs[j].address.value = rs[i].address.value

\* self.recipients[..i].iter().any(|r| r.address.value == recipient.address.value)
IsDuplicateOf(rs, i) ==
    \E j \in 1..(i - 1) : rs[j].address.value = rs[i].address.value

\* the loop of check_valid over recipients i..len
RECURSIVE CheckRecipients(_, _, _, _)
CheckRecipients(rs, i, valid, dup) ==
    IF i > Len(rs) THEN [is_valid |-> valid, is_duplicate |-> dup]
    ELSE LET valid1 == IF ~Recipient_valid(rs[i]) THEN FALSE ELSE valid
             dup1 == IF ~dup /\ rs[i].address.value # ""
                     THEN IsDuplicateOf(rs, i)
                     ELSE dup
         IN  CheckRecipients(rs, i + 1, valid1, dup1)

AnySelected(cs) == \E i \in 1..Len(cs) : cs[i].selected

\* a mutation of check_valid: the test that a coin is selected is missing
check_valid_without_coins(self) ==
    LET valid0 == self.feerate.valid /\ self.feerate.value # <<>>
        res == CheckRecipients(self.recipients, 1, valid0, FALSE)
    IN  [self EXCEPT !.is_valid = res.is_valid, !.is_duplicate = res.is_duplicate]

\* DefineSpend::check_valid
DefineSpend_check_valid(self) ==
    LET valid0 == self.feerate.valid /\ self.feerate.value # <<>>
        valid1 == IF ~AnySelected(self.coins) THEN FALSE ELSE valid0
        res == CheckRecipients(self.recipients, 1, valid1, FALSE)
    IN  [self EXCEPT !.is_valid = res.is_valid, !.is_duplicate = res.is_duplicate]

\* the recipients for which valid() holds, in order
RECURSIVE ValidRecipients(_)
ValidRecipients(rs) ==
    IF rs = <<>> THEN <<>>
    ELSE (IF Recipient_valid(Head(rs)) THEN <<Head(rs)>> ELSE <<>>)
         \o ValidRecipients(Tail(rs))

\* an unwrap() or expect() on the address or the amount of r fails
UnwrapFails(r) ==
    ~Address_from_str(r.address.value).ok \/ ~Recipient_amount(r).ok

\* the TxOut built from a recipient
TxOutOf(r) ==
    [ script_len |-> script_len(Address_from_str(r.address.value).val),
      value |-> Recipient_amount(r).val ]
TxOuts(rs) == [i \in 1..Len(rs) |-> TxOutOf(rs[i])]

RECURSIVE OutputSize(_)
OutputSize(outs) ==
    IF outs = <<>> THEN 0
    ELSE 8 + VarIntLen(Head(outs).script_len) + Head(outs).script_len
         + OutputSize(Tail(outs))

WITNESS_SCALE_FACTOR == 4

\* Transaction::weight() of the template: n_in inputs with an empty
\* script_sig and an empty witness, version and lock_time of 4 bytes
tx_weight(n_in, outs) ==
    LET input_weight == n_in * WITNESS_SCALE_FACTOR * (32 + 4 + 4 + VarIntLen(0) + 0)
        non_input_size == 4 + VarIntLen(n_in) + VarIntLen(Len(outs))
                          + OutputSize(outs) + 4
    IN  non_input_size * WITNESS_SCALE_FACTOR + input_weight

\* Transaction::vsize()
tx_vsize(n_in, outs) ==
    (tx_weight(n_in, outs) + WITNESS_SCALE_FACTOR - 1) \div WITNESS_SCALE_FACTOR

\* nValue size + scriptPubKey CompactSize + OP_0 + PUSH32 + <wit program>
CHANGE_TXO_SIZE == 8 + 1 + 1 + 1 + 32

OutValues(outs) == [i \in 1..Len(outs) |-> outs[i].value]

Panic(self) == [self EXCEPT !.panicked = TRUE]

\* Only({ F(x) : x \in {e} }) is F(e) with e evaluated once and named x: the
\* form a local `let x = e` of the source takes below
Only(S) == CHOOSE x \in S : TRUE

\* the result of a u64 operation whose exact result is given: the wrapped
\* value, and whether the operation overflowed
U64(exact) == [val |-> WrapU64(exact), overflow |-> ~FitsU64(exact)]

\* tx_template.vsize() + satisfaction_vsize * tx_template.input.len()
\*   + CHANGE_TXO_SIZE
transaction_size(self, n_in, outs) ==
    tx_vsize(n_in, outs)
    + (self.descriptor.max_sat_weight \div 4) * n_in + CHANGE_TXO_SIZE

\* needed_amount.saturating_sub(selected_amount), stored; an operation that
\* overflows panics in a build with overflow checks and wraps in one without
StoreAmountLeft(self, checks, selected_amount, output_sum, product) ==
    Only({ IF checks /\ ( \/ selected_amount.overflow \/ output_sum.overflow
                          \/ product.overflow \/ needed_amount.overflow )
           THEN Panic(self)
           ELSE [self EXCEPT !.amount_left_to_select =
                    Some(saturating_sub(needed_amount.val, selected_amount.val))]
         : needed_amount \in {U64(BigAdd(product.val, output_sum.val))} })

\* the sums and the product of the estimate
EstimateAmountLeft(self, checks, feerate_vb, selected_coins, outs) ==
    Only({ StoreAmountLeft(self, checks, selected_amount, output_sum, product)
         : selected_amount \in {U64(SumSeq(AmountOf(selected_coins)))},
           output_sum \in {U64(SumSeq(OutValues(outs)))},
           product \in {U64(BigMulSmall(feerate_vb,
                            transaction_size(self, Len(selected_coins), outs)))} })

\* DefineSpend::amount_left_to_select.  checks: the build has overflow
\* checks (an overflowing operation panics) or not (it wraps).
DefineSpend_amount_left_to_select(self, checks) ==
    Only({ IF ~feerate_vb.ok THEN [self EXCEPT !.amount_left_to_select = None]
           ELSE IF \E i \in 1..Len(valid) : UnwrapFails(valid[i]) THEN Panic(self)
           ELSE Only({ EstimateAmountLeft(self, checks, feerate_vb.val,
                                          selected_coins, outs)
                     : outs \in {TxOuts(valid)} })
         : feerate_vb \in {parse_u64(self.feerate.value)},
           selected_coins \in {SelectedCoins(self.coins)},
           valid \in {ValidRecipients(self.recipients)} })

RemoveAt(q, i) == SubSeq(q, 1, i - 1) \o SubSeq(q, i + 1, Len(q))

\* DefineSpend::update, the arms of its match; positions count from 1.
\* A result with panicked set stands for the aborted process.
update_AddRecipient(self) ==
    DefineSpend_check_valid([self EXCEPT !.recipients = Append(@, RecipientDefault)])

update_DeleteRecipient(self, i) ==
    IF i \notin 1..Len(self.recipients) THEN Panic(self)
    ELSE DefineSpend_check_valid([self EXCEPT !.recipients = RemoveAt(@, i)])

update_RecipientEdited(self, net, i, field, text) ==
    IF i \notin 1..Len(self.recipients) THEN Panic(self)
    ELSE DefineSpend_check_valid([self EXCEPT !.recipients[i] =
            IF field = "address" THEN Recipient_update_address(@, net, text)
            ELSE IF field = "amount" THEN Recipient_update_amount(@, text)
            ELSE @])

\* a mutation of the FeerateEdited arm: a feerate of 0 is accepted
FeerateStored_zero_accepted(self, s, value, checks) ==
    IF value.ok
    THEN Only({ DefineSpend_amount_left_to_select(s0, checks)
              : s0 \in {[self EXCEPT !.feerate =
                            [value |-> s, valid |-> TRUE]]} })
    ELSE IF s = <<>>
    THEN [self EXCEPT !.feerate = [value |-> <<>>, valid |-> TRUE],
                      !.amount_left_to_select = None]
    ELSE [self EXCEPT !.feerate.valid = FALSE,
                      !.amount_left_to_select = None]

\* the three branches of the FeerateEdited arm
FeerateStored(self, s, value, checks) ==
    IF value.ok
    THEN Only({ DefineSpend_amount_left_to_select(s0, checks)
              : s0 \in {[self EXCEPT !.feerate =
                            [value |-> s, valid |-> value.val # <<>>]]} })
    ELSE IF s = <<>>
    THEN [self EXCEPT !.feerate = [value |-> <<>>, valid |-> TRUE],
                      !.amount_left_to_select = None]
    ELSE [self EXCEPT !.feerate.valid = FALSE,
                      !.amount_left_to_select = None]

update_FeerateEdited(self, s, checks) ==
    Only({ IF s1.panicked THEN s1
           ELSE DefineSpend_check_valid([s1 EXCEPT !.warning = None])
         : s1 \in {Only({ FeerateStored(self, s, value, checks)
                         : value \in {parse_u64(s)} })} })

\* a mutation of the SelectCoin arm: the flags of the coins before the one
\* chosen are flipped with it
Toggled_up_to(self, i) ==
    [self EXCEPT !.coins = [j \in 1..Len(self.coins) |->
        IF j <= i THEN [self.coins[j] EXCEPT !.selected = ~@]
        ELSE self.coins[j]]]

\* coin.1 = !coin.1
Toggled(self, i) == [self EXCEPT !.coins[i].selected = ~@]

update_SelectCoin(self, i, checks) ==
    Only({ IF s1.panicked THEN s1 ELSE DefineSpend_check_valid(s1)
         : s1 \in { IF i \in 1..Len(self.coins)
                    THEN Only({ DefineSpend_amount_left_to_select(s0, checks)
                              : s0 \in {Toggled(self, i)} })
                    ELSE self } })

RECURSIVE InsertAll(_, _)
InsertAll(rs, map) ==
    IF rs = <<>> THEN map
    ELSE LET k == Address_from_str(Head(rs).address.value).val
             v == Recipient_amount(Head(rs)).val
         IN  InsertAll(Tail(rs),
                 [a \in (DOMAIN map) \cup {k} |-> IF a = k THEN v ELSE map[a]])

Outpoints(q) == [i \in 1..Len(q) |-> q[i].outpoint]
EmptyMap == [a \in {} |-> <<>>]

\* the create_spend_tx call the Generate arm dispatches
GenerateRequest(self) ==
    LET feerate == parse_u64(self.feerate.value)
    IN  [ kind |-> "create_spend_tx",
          inputs |-> Outpoints(SelectedCoins(self.coins)),
          outputs |-> InsertAll(self.recipients, EmptyMap),
          feerate_vb |-> IF feerate.ok THEN feerate.val ELSE <<>> ]

update_Generate(self) ==
    IF \E i \in 1..Len(self.recipients) : UnwrapFails(self.recipients[i])
    THEN Panic(self)
    ELSE [self EXCEPT !.warning = None]

\* a mutation of the Psbt arm: a failure also drops the coin selection
update_Psbt_failure_deselects(self, res) ==
    IF res.ok THEN [self EXCEPT !.generated = Some(res.val)]
    ELSE [self EXCEPT !.warning = Some(res.err),
                      !.coins = [i \in 1..Len(self.coins) |->
                                    [self.coins[i] EXCEPT !.selected = FALSE]]]

\* a mutation of the Psbt arm: the transaction of a success is not stored
update_Psbt_success_not_stored(self, res) ==
    IF res.ok THEN self
    ELSE [self EXCEPT !.warning = Some(res.err)]

\* the arm for Message::Psbt(res)
update_Psbt(self, res) ==
    IF res.ok THEN [self EXCEPT !.generated = Some(res.val)]
    ELSE [self EXCEPT !.warning = Some(res.err)]

\* DefineSpend::apply
DefineSpend_apply(self, draft0) ==
    [draft0 EXCEPT !.inputs = SelectedCoins(self.coins),
                   !.generated = self.generated]

\* TransactionDraft::default()
TransactionDraftDefault == [inputs |-> <<>>, generated |-> None]

\* ------------------------------------------------------------------------
\* SaveSpend
\* ------------------------------------------------------------------------
\* SaveSpend::new
SaveSpend_new == [spend |-> None, panicked |-> FALSE]

\* SaveSpend::load: draft.generated.clone().unwrap() fails on a draft without
\* a transaction; partial_spend_info succeeds on a transaction of the daemon
SaveSpend_load(self, draft0) ==
    IF ~draft0.generated.some THEN [self EXCEPT !.panicked = TRUE]
    ELSE [self EXCEPT !.spend =
             Some([psbt |-> draft0.generated.val, coins |-> draft0.inputs,
                   saved |-> FALSE])]

\* ------------------------------------------------------------------------
\* Installer (gui/src/installer/step/mod.rs): the configuration file of the
\* internal bitcoind
\* ------------------------------------------------------------------------
PRUNE_DEFAULT == 15000
BITCOIND_DEFAULT_PORTS == {8332, 8333, 18332, 18333, 18443, 18444, 38332, 38333}

\* Network, in the order of its Ord
Networks == <<"bitcoin", "testnet", "signet", "regtest">>

\* Network::to_core_arg
to_core_arg(network) ==
    CASE network = "bitcoin" -> "main"
      [] network = "testnet" -> "test"
      [] network = "signet" -> "signet"
      [] network = "regtest" -> "regtest"

\* Network::from_core_arg
from_core_arg(sec) ==
    CASE sec = "main" -> Ok("bitcoin")
      [] sec = "test" -> Ok("testnet")
      [] sec = "signet" -> Ok("signet")
      [] sec = "regtest" -> Ok("regtest")
      [] OTHER -> Err("ParseNetworkError")

\* the remainder of the limbs x[i..] by a small divisor
RECURSIVE RemFrom(_, _, _)
RemFrom(x, i, k) ==
    IF i > Len(x) THEN 0
    ELSE (RemFrom(x, i + 1, k) * LimbBase + x[i]) % k

\* exact quotient by a small divisor
BigDivSmall(x, k) ==
    Norm([i \in 1..Len(x) |-> (RemFrom(x, i + 1, k) * LimbBase + x[i]) \div k])

DigitChar(d) ==
    CASE d = 0 -> "0" [] d = 1 -> "1" [] d = 2 -> "2" [] d = 3 -> "3"
      [] d = 4 -> "4" [] d = 5 -> "5" [] d = 6 -> "6" [] d = 7 -> "7"
      [] d = 8 -> "8" [] d = 9 -> "9"

RECURSIVE DecimalDigits(_)
DecimalDigits(x) ==
    IF x = <<>> THEN <<>>
    ELSE Only({ Append(DecimalDigits(q), DigitChar(RemFrom(x, 1, 10)))
              : q \in {BigDivSmall(x, 10)} })

\* a mutation of to_string: zero is written as the empty text
to_string_zero_empty(x) == DecimalDigits(x)

\* u16::to_string and u32::to_string
to_string(x) == IF x = <<>> THEN <<"0">> ELSE DecimalDigits(x)

\* str::parse::<u16> and str::parse::<u32>: a value above the width is a
\* PosOverflow
parse_u16(s) ==
    LET r == parse_u64(s)
    IN  IF r.ok /\ Len(r.val) > 1 THEN Err("PosOverflow") ELSE r
parse_u32(s) ==
    LET r == parse_u64(s)
    IN  IF r.ok /\ Len(r.val) > 2 THEN Err("PosOverflow") ELSE r

\* a u16 as a number
PortOf(x) == IF x = <<>> THEN 0 ELSE x[1]

\* Properties: the key/value pairs of a section, in order
\* Properties::get: the value of the first pair with the key
RECURSIVE Properties_get(_, _)
Properties_get(prop, key) ==
    IF prop = <<>> THEN None
    ELSE IF Head(prop).key = key THEN Some(Head(prop).value)
    ELSE Properties_get(Tail(prop), key)

\* Properties::insert: the value replaces the values the key had
Properties_insert(prop, key, value) ==
    IF \E i \in 1..Len(prop) : prop[i].key = key
    THEN LET first == CHOOSE i \in 1..Len(prop) :
                          /\ prop[i].key = key
                          /\ \A j \in 1..(i - 1) : prop[j].key # key
         IN  [i \in 1..Len(prop) |->
                 IF i = first THEN [key |-> key, value |-> value] ELSE prop[i]]
    ELSE Append(prop, [key |-> key, value |-> value])

\* Ini::new: the general section, empty, and no other section
Ini_new == [general |-> <<>>, sections |-> <<>>]

\* Ini::with_section(Some(sec)).set(key, value)
Ini_set(conf_ini, sec, key, value) ==
    IF \E i \in 1..Len(conf_ini.sections) : conf_ini.sections[i].name = sec
    THEN LET first == CHOOSE i \in 1..Len(conf_ini.sections) :
                          /\ conf_ini.sections[i].name = sec
                          /\ \A j \in 1..(i - 1) : conf_ini.sections[j].name # sec
         IN  [conf_ini EXCEPT !.sections[first].props =
                                  Properties_insert(@, key, value)]
    ELSE [conf_ini EXCEPT !.sections =
             Append(@, [name |-> sec,
                        props |-> <<[key |-> key, value |-> value]>>])]

\* InternalBitcoindConfig::new
InternalBitcoindConfig_new == [networks |-> [n \in {} |-> <<>>]]

\* BTreeMap::insert
Map_insert(map, k, v) ==
    [a \in (DOMAIN map) \cup {k} |-> IF a = k THEN v ELSE map[a]]

\* the entry from_ini reads from the properties of a section
NetworkConfigOf(sec, prop) ==
    IF Len(prop) > 3 THEN Err("TooManyElements")
    ELSE Only({
        IF ~rpcport.some THEN Err("KeyNotFound")
        ELSE IF ~rpcport.val.ok THEN Err("CouldNotParseValue")
        ELSE IF ~port.some THEN Err("KeyNotFound")
        ELSE IF ~port.val.ok THEN Err("CouldNotParseValue")
        ELSE IF ~prune.some THEN Err("KeyNotFound")
        ELSE IF ~prune.val.ok THEN Err("CouldNotParseValue")
        ELSE Ok([ rpc_port |-> PortOf(rpcport.val.val),
                  p2p_port |-> PortOf(port.val.val),
                  prune |-> prune.val.val ])
      : rpcport \in { IF got.some THEN Some(parse_u16(got.val)) ELSE None
                        : got \in {Properties_get(prop, "rpcport")} },
        port \in { IF got.some THEN Some(parse_u16(got.val)) ELSE None
                     : got \in {Properties_get(prop, "port")} },
        prune \in { IF got.some THEN Some(parse_u32(got.val)) ELSE None
                      : got \in {Properties_get(prop, "prune")} } })

\* the loop of from_ini over the sections i.. of the file
RECURSIVE FromSections(_, _, _)
FromSections(sections, i, networks) ==
    IF i > Len(sections) THEN Ok([networks |-> networks])
    ELSE Only({ IF ~network.ok THEN Err("UnexpectedSection")
                ELSE Only({ IF ~entry.ok THEN entry
                            ELSE Only({ FromSections(sections, i + 1, inserted)
                                      : inserted \in {Map_insert(networks,
                                            network.val, entry.val)} })
                          : entry \in {NetworkConfigOf(sections[i].name,
                                                       sections[i].props)} })
              : network \in {from_core_arg(sections[i].name)} })

\* InternalBitcoindConfig::from_ini
from_ini(ini) ==
    IF ini.general # <<>> THEN Err("UnexpectedSection")
    ELSE FromSections(ini.sections, 1, InternalBitcoindConfig_new.networks)

\* the loop of to_ini over the networks i.. of the map, in key order
RECURSIVE ToSections(_, _, _)
ToSections(networks, i, conf_ini) ==
    IF i > Len(Networks) THEN conf_ini
    ELSE IF Networks[i] \notin DOMAIN networks
    THEN ToSections(networks, i + 1, conf_ini)
    ELSE Only({ ToSections(networks, i + 1, ini3) :
                  ini3 \in { Ini_set(ini2, to_core_arg(Networks[i]), "prune",
                                     to_string(networks[Networks[i]].prune)) :
                  ini2 \in { Ini_set(ini1, to_core_arg(Networks[i]), "port",
                                     to_string(Big(networks[Networks[i]].p2p_port))) :
                  ini1 \in { Ini_set(conf_ini, to_core_arg(Networks[i]), "rpcport",
                                     to_string(Big(networks[Networks[i]].rpc_port)))
                           } } } })

\* InternalBitcoindConfig::to_ini
to_ini(self) == ToSections(self.networks, 1, Ini_new)

\* InternalBitcoindConfig::from_file on the file at the path: None when
\* there is no file
from_file(file) ==
    IF ~file.some THEN Err("FileNotFound") ELSE from_ini(file.val)

\* a mutation of port_is_valid: every port is taken
port_is_valid_any(port) == TRUE

\* port_is_valid
port_is_valid(port) == port \notin BITCOIND_DEFAULT_PORTS

\* the number of attempts of get_available_port
PORT_ATTEMPTS == 10

\* the loop of get_available_port over the answers of the system to the
\* binds: Ok(port) or Err(e)
RECURSIVE AvailablePortFrom(_, _)
AvailablePortFrom(binds, i) ==
    IF i > PORT_ATTEMPTS THEN Err("Exhausted attempts")
    ELSE IF ~binds[i].ok THEN Err("CannotGetAvailablePort")
    ELSE IF port_is_valid(binds[i].val) THEN Ok(binds[i].val)
    ELSE AvailablePortFrom(binds, i + 1)

\* get_available_port
get_available_port(binds) == AvailablePortFrom(binds, 1)

\* ------------------------------------------------------------------------
\* Installer: the steps SelectBitcoindTypeStep, DefineBitcoind and
\* InternalBitcoindStep.  A handler gives the step it leaves and, where it
\* has any, the command it returns and its effects on the context, on the
\* file bitcoin.conf and on the bitcoind process.
\* ------------------------------------------------------------------------
IsOk(opt) == opt.some /\ opt.val.ok
IsErr(opt) == opt.some /\ ~opt.val.ok

\* Context::new, the fields the steps read or write
Context_new ==
    [ bitcoin_config |-> [network |-> "bitcoin"],
      bitcoind_config |-> None,
      bitcoind_is_external |-> TRUE,
      internal_bitcoind_config |-> None,
      internal_bitcoind_exe_config |-> None ]

\* SelectBitcoindTypeStep::new
SelectBitcoindTypeStep_new == [use_external |-> TRUE]

\* SelectBitcoindTypeStep::update on SelectBitcoindTypeMsg::UseExternal
SelectBitcoindTypeStep_update(self, selected) ==
    [ self |-> [self EXCEPT !.use_external = selected],
      command |-> Some([kind |-> "Next"]) ]

\* SelectBitcoindTypeStep::apply
SelectBitcoindTypeStep_apply(self, ctx) ==
    LET ctx1 == IF ~self.use_external
                THEN IF ~ctx.internal_bitcoind_config.some
                     THEN [ctx EXCEPT !.bitcoind_config = None]
                     ELSE ctx
                ELSE [ctx EXCEPT !.internal_bitcoind_config = None,
                                 !.internal_bitcoind_exe_config = None]
    IN  [ self |-> self,
          ctx |-> [ctx1 EXCEPT !.bitcoind_is_external = self.use_external],
          result |-> TRUE ]

\* bitcoind_network_dir
bitcoind_network_dir(net) ==
    CASE net = "bitcoin" -> None
      [] net = "testnet" -> Some("testnet3")
      [] net = "regtest" -> Some("regtest")
      [] net = "signet" -> Some("signet")

\* bitcoind_default_cookie_path, with a home directory
bitcoind_default_cookie_path(net) ==
    Some(<<".bitcoin">>
         \o (IF bitcoind_network_dir(net).some
             THEN <<bitcoind_network_dir(net).val>> ELSE <<>>)
         \o <<".cookie">>)

\* bitcoind_default_address
bitcoind_default_address(net) ==
    CASE net = "bitcoin" -> "127.0.0.1:8332"
      [] net = "testnet" -> "127.0.0.1:18332"
      [] net = "regtest" -> "127.0.0.1:18443"
      [] net = "signet" -> "127.0.0.1:38332"
      [] OTHER -> "127.0.0.1:8332"

\* SocketAddr::from_str on the texts of the model
SocketAddr_from_str(text) ==
    IF text \in {"127.0.0.1:8332", "127.0.0.1:18332", "127.0.0.1:18443",
                 "127.0.0.1:38332", "127.0.0.1:9999"}
    THEN Ok(text)
    ELSE Err("AddrParseError")

\* DefineBitcoind::new
DefineBitcoind_new ==
    [ cookie_path |-> [value |-> <<>>, valid |-> TRUE],
      address |-> [value |-> "", valid |-> TRUE],
      is_running |-> None ]

\* DefineBitcoind::ping: the command, which owns copies of the two texts
DefineBitcoind_ping(self) ==
    Some([ kind |-> "ping", address |-> self.address.value,
           cookie_path |-> self.cookie_path.value ])

\* DefineBitcoind::load_context
DefineBitcoind_load_context(self, ctx) ==
    LET s1 == IF self.cookie_path.value = <<>>
              THEN [self EXCEPT !.cookie_path.value =
                       bitcoind_default_cookie_path(ctx.bitcoin_config.network).val]
              ELSE self
    IN  IF s1.address.value = ""
        THEN [s1 EXCEPT !.address.value =
                 bitcoind_default_address(ctx.bitcoin_config.network)]
        ELSE s1

\* DefineBitcoind::update, the arms of its match
DefineBitcoind_PingBitcoind(self) ==
    [ self |-> [self EXCEPT !.is_running = None],
      command |-> DefineBitcoind_ping([self EXCEPT !.is_running = None]) ]

DefineBitcoind_PingBitcoindResult(self, res) ==
    [ self |-> [self EXCEPT !.is_running = Some(res)], command |-> None ]

DefineBitcoind_AddressEdited(self, text) ==
    [ self |-> [self EXCEPT !.is_running = None,
                            !.address = [value |-> text, valid |-> TRUE]],
      command |-> None ]

DefineBitcoind_CookiePathEdited(self, path) ==
    [ self |-> [self EXCEPT !.is_running = None,
                            !.cookie_path.value = path,
                            !.address.valid = TRUE],
      command |-> None ]

\* DefineBitcoind::apply; PathBuf::from_str does not fail
DefineBitcoind_apply(self, ctx) ==
    LET addr == SocketAddr_from_str(self.address.value)
    IN  IF ~addr.ok
        THEN [ self |-> [self EXCEPT !.address.valid = FALSE],
               ctx |-> ctx, result |-> FALSE ]
        ELSE [ self |-> self,
               ctx |-> [ctx EXCEPT !.bitcoind_config =
                           Some([ cookie_path |-> self.cookie_path.value,
                                  addr |-> addr.val ])],
               result |-> TRUE ]

\* InternalBitcoindStep::new
InternalBitcoindStep_new ==
    [ network |-> "bitcoin",
      started |-> None,
      exe_path |-> None,
      bitcoind_config |-> None,
      exe_config |-> None,
      internal_bitcoind_config |-> None,
      error |-> None,
      panicked |-> FALSE ]

\* InternalBitcoindStep::load_context.  found: the answer of
\* bitcoind_exe_path()
InternalBitcoindStep_load_context(self, ctx, found) ==
    LET s1 == IF ~self.exe_path.some
              THEN [self EXCEPT !.exe_path =
                       IF ctx.internal_bitcoind_exe_config.some
                       THEN Some(ctx.internal_bitcoind_exe_config.val.exe_path)
                       ELSE found]
              ELSE self
        s2 == [s1 EXCEPT !.network = ctx.bitcoin_config.network]
    IN  IF IsOk(s2.started) /\ ~ctx.bitcoind_config.some
        THEN [s2 EXCEPT !.started = None]
        ELSE s2

\* a mutation of InternalBitcoindStep::load: a failed start is started again
InternalBitcoindStep_load_retrying(self) ==
    IF ~self.internal_bitcoind_config.some
    THEN Some([kind |-> "DefineConfig"])
    ELSE IF ~IsOk(self.started)
    THEN Some([kind |-> "Start"])
    ELSE None

\* InternalBitcoindStep::load
InternalBitcoindStep_load(self) ==
    IF ~self.internal_bitcoind_config.some
    THEN Some([kind |-> "DefineConfig"])
    ELSE IF ~self.started.some
    THEN Some([kind |-> "Start"])
    ELSE None

\* the arm InternalBitcoindMsg::Previous: stop_internal_bitcoind is called
InternalBitcoindStep_Previous_stops(self) ==
    self.internal_bitcoind_config.some /\ self.bitcoind_config.some

InternalBitcoindStep_Previous(self) ==
    [ self |-> self,
      stops |-> InternalBitcoindStep_Previous_stops(self),
      command |-> Some([kind |-> "Previous"]) ]

\* the end of the arm DefineConfig: conf.to_file, then the step keeps conf
DefineConfig_write(self, file, conf, written) ==
    IF ~written
    THEN [ self |-> [self EXCEPT !.error = Some("WritingFile")],
           file |-> file, command |-> None ]
    ELSE [ self |-> [self EXCEPT !.error = None,
                                 !.internal_bitcoind_config = Some(conf)],
           file |-> Some(to_ini(conf)),
           command |-> Some([kind |-> "Reload"]) ]

\* the arm DefineConfig from the configuration read: the entry for the
\* network is inserted if not present
DefineConfig_insert(self, file, conf, rpc_port, p2p_port, written) ==
    IF self.network \in DOMAIN conf.networks
    THEN DefineConfig_write(self, file, conf, written)
    ELSE IF rpc_port.ok /\ p2p_port.ok
    THEN IF rpc_port.val = p2p_port.val
         THEN [ self |-> [self EXCEPT !.error =
                             Some("Could not get distinct ports")],
                file |-> file, command |-> None ]
         ELSE Only({ DefineConfig_write(self, file, inserted, written)
                   : inserted \in
                       { [conf EXCEPT !.networks =
                             Map_insert(@, self.network,
                                        [ rpc_port |-> rpc_port.val,
                                          p2p_port |-> p2p_port.val,
                                          prune |-> Big(PRUNE_DEFAULT) ])] } })
    ELSE [ self |-> [self EXCEPT !.error = Some("Could not get available port")],
           file |-> file, command |-> None ]

\* the arm InternalBitcoindMsg::DefineConfig.  file: bitcoin.conf;
\* binds_rpc, binds_p2p: the answers of the system to the binds of the two
\* calls of get_available_port; written: to_file succeeds
InternalBitcoindStep_DefineConfig(self, file, binds_rpc, binds_p2p, written) ==
    Only({ IF ~read.ok /\ read.err # "FileNotFound"
           THEN [ self |-> [self EXCEPT !.error = Some(read.err)],
                  file |-> file, command |-> None ]
           ELSE Only({ DefineConfig_insert(self, file, conf, rpc_port, p2p_port,
                                           written)
                     : conf \in { IF read.ok THEN read.val
                                  ELSE InternalBitcoindConfig_new },
                       rpc_port \in {get_available_port(binds_rpc)},
                       p2p_port \in {get_available_port(binds_p2p)} })
         : read \in {from_file(file)} })

\* the steps of Start that can fail, in order
StartFailures ==
    <<"datadir", "command", "cookie", "cookie_path", "connection">>

\* the arm InternalBitcoindMsg::Start.  fails: the step that fails, "none"
\* when none does.  spawned: start_internal_bitcoind was called and
\* succeeded.
InternalBitcoindStep_Start(self, fails) ==
    IF ~self.exe_path.some THEN [self |-> self, spawned |-> FALSE]
    ELSE IF fails = "datadir"
    THEN [ self |-> [self EXCEPT !.started =
                        Some(Err("CouldNotCanonicalizeDataDir"))],
           spawned |-> FALSE ]
    ELSE IF fails = "command"
    THEN [ self |-> [self EXCEPT !.started = Some(Err("CommandError"))],
           spawned |-> FALSE ]
    ELSE IF fails = "cookie"
    THEN [ self |-> [self EXCEPT !.started = Some(Err("CookieFileNotFound"))],
           spawned |-> TRUE ]
    ELSE IF ~self.internal_bitcoind_config.some
    THEN [self |-> [self EXCEPT !.panicked = TRUE], spawned |-> TRUE]
    ELSE IF self.network \notin DOMAIN self.internal_bitcoind_config.val.networks
    THEN [self |-> [self EXCEPT !.panicked = TRUE], spawned |-> TRUE]
    ELSE IF fails = "cookie_path"
    THEN [ self |-> [self EXCEPT !.started =
                        Some(Err("CouldNotCanonicalizeCookiePath"))],
           spawned |-> TRUE ]
    ELSE IF fails = "connection"
    THEN [ self |-> [self EXCEPT !.started = Some(Err("BitcoinDError"))],
           spawned |-> TRUE ]
    ELSE [ self |-> [self EXCEPT
               !.error = None,
               !.bitcoind_config =
                   Some([ cookie_path |-> <<"datadir">>
                              \o (IF bitcoind_network_dir(self.network).some
                                  THEN <<bitcoind_network_dir(self.network).val>>
                                  ELSE <<>>)
                              \o <<".cookie">>,
                          addr |-> self.internal_bitcoind_config.val
                                       .networks[self.network].rpc_port ]),
               !.exe_config = Some([ exe_path |-> self.exe_path.val,
                                     data_dir |-> "datadir" ]),
               !.started = Some(Ok("unit"))],
           spawned |-> TRUE ]

\* a mutation of InternalBitcoindStep::apply: any result of the start is
\* accepted
InternalBitcoindStep_apply_any_result(self, ctx) ==
    IF self.started.some
    THEN [ self |-> [self EXCEPT !.error = None],
           ctx |-> [ctx EXCEPT
               !.bitcoind_config = self.bitcoind_config,
               !.internal_bitcoind_config = self.internal_bitcoind_config,
               !.internal_bitcoind_exe_config = self.exe_config],
           result |-> TRUE ]
    ELSE [self |-> self, ctx |-> ctx, result |-> FALSE]

\* InternalBitcoindStep::apply
InternalBitcoindStep_apply(self, ctx) ==
    IF IsOk(self.started)
    THEN [ self |-> [self EXCEPT !.error = None],
           ctx |-> [ctx EXCEPT
               !.bitcoind_config = self.bitcoind_config,
               !.internal_bitcoind_config = self.internal_bitcoind_config,
               !.internal_bitcoind_exe_config = self.exe_config],
           result |-> TRUE ]
    ELSE [self |-> self, ctx |-> ctx, result |-> FALSE]

\* Final::new, the fields update reads or writes
Final_new == [generating |-> FALSE, warning |-> None, config_path |-> None]

\* a mutation of the arm Message::Install: the warning is kept
Final_Install_keeping_warning(self) ==
    [self EXCEPT !.generating = TRUE, !.config_path = None]

\* Final::update, the arm Message::Install
Final_Install(self) ==
    [self EXCEPT !.generating = TRUE, !.config_path = None, !.warning = None]

\* Final::update, the arm Message::Installed(res)
Final_Installed(self, res) ==
    IF res.ok
    THEN [self EXCEPT !.generating = FALSE, !.config_path = Some(res.val)]
    ELSE [self EXCEPT !.generating = FALSE, !.config_path = None,
                      !.warning = Some(res.err)]

\* DefineBitcoind::skip and InternalBitcoindStep::skip
DefineBitcoind_skip(ctx) == ~ctx.bitcoind_is_external
InternalBitcoindStep_skip(ctx) == ctx.bitcoind_is_external

\* ------------------------------------------------------------------------
\* State
\* ------------------------------------------------------------------------
VARIABLES
    balance_available, recipients, is_valid, is_duplicate, descriptor,
    timelock, coins, amount_left_to_select, feerate, generated, warning,
    \* the process aborted on a panic
    panicked,
    \* cache.network
    network,
    \* the build profile: overflow checks on (panic) or off (wrap)
    overflow_checks,
    \* the commands dispatched and not yet completed
    pending,
    \* the TransactionDraft owned by the wizard
    draft,
    \* history: the text last typed in the feerate field
    feerate_field,
    \* history: the coins and the block height DefineSpend::new was given
    coin_list, blockheight,
    \* SaveSpend.spend, the state of the stage that follows
    spend,
    \* the installer: the position among its steps, its Context, its steps
    current, context, select_step, external_step, internal_step,
    \* the commands the installer's steps returned, not yet completed
    commands,
    \* the file bitcoin.conf of the internal bitcoind, None when there is none
    conf_file,
    \* the internal bitcoind process: "off", "running" or "stopped"
    bitcoind,
    \* the step Final of the installer
    final_step

fields == <<balance_available, recipients, is_valid, is_duplicate, descriptor,
            timelock, coins, amount_left_to_select, feerate, generated, warning>>
spend_vars == <<fields, panicked, network, overflow_checks, pending, draft,
                feerate_field, coin_list, blockheight, spend>>
installer_vars == <<current, context, select_step, external_step,
                    internal_step, commands, conf_file, bitcoind, final_step>>
vars == <<spend_vars, installer_vars>>

\* the DefineSpend object
Self ==
    [ balance_available |-> balance_available,
      descriptor |-> descriptor,
      timelock |-> timelock,
      generated |-> generated,
      coins |-> coins,
      recipients |-> recipients,
      is_valid |-> is_valid,
      is_duplicate |-> is_duplicate,
      feerate |-> feerate,
      amount_left_to_select |-> amount_left_to_select,
      warning |-> warning,
      panicked |-> panicked ]

Store(s) ==
    /\ balance_available' = s.balance_available
    /\ descriptor' = s.descriptor
    /\ timelock' = s.timelock
    /\ generated' = s.generated
    /\ coins' = s.coins
    /\ recipients' = s.recipients
    /\ is_valid' = s.is_valid
    /\ is_duplicate' = s.is_duplicate
    /\ feerate' = s.feerate
    /\ amount_left_to_select' = s.amount_left_to_select
    /\ warning' = s.warning
    /\ panicked' = s.panicked

\* one call of DefineSpend::update: s is the object it leaves, cmds the
\* commands in flight after it, typed the text in the feerate field
Handled(s, cmds, typed) ==
    /\ ~panicked
    /\ UNCHANGED <<network, overflow_checks, draft, coin_list, blockheight,
                   spend, installer_vars>>
    /\ IF s.panicked
       THEN /\ panicked' = TRUE
            /\ UNCHANGED <<fields, pending, feerate_field>>
       ELSE /\ Store(s)
            /\ pending' = cmds
            /\ feerate_field' = typed

\* ------------------------------------------------------------------------
\* Inputs
\* ------------------------------------------------------------------------
Coin(op, sats, height, spent) ==
    [outpoint |-> op, amount |-> Big(sats), block_height |-> height,
     spend_info |-> spent]

InitCoinLists ==
    { << Coin(1, 8000, Some(100), FALSE),
         Coin(2, 50000, Some(90), TRUE),
         Coin(3, 20000, Some(90), FALSE) >> }
FlowCoinLists ==
    { << Coin(1, 50000, Some(90), TRUE),
         Coin(2, 20000, Some(100), FALSE) >> }
InitDescriptors == { [max_sat_weight |-> 1001] }
InitTimelocks == {10}
InitBlockheights == {105}

ValidAmountText == <<"0", ".", "0", "0", "0", "1">>
U64MaxText == << "1", "8", "4", "4", "6", "7", "4", "4", "0", "7",
                 "3", "7", "0", "9", "5", "5", "1", "6", "1", "5" >>
DaemonErrors == {"daemon error"}

\* ------------------------------------------------------------------------
\* Actions: the messages of the view, the daemon's answers, the wizard
\* ------------------------------------------------------------------------
\* Installer::new on a machine where bitcoin.conf is one of files
InstallerInit(files) ==
    /\ current = 1
    /\ context = Context_new
    /\ select_step = SelectBitcoindTypeStep_new
    /\ external_step = DefineBitcoind_new
    /\ internal_step = InternalBitcoindStep_new
    /\ commands = <<>>
    /\ conf_file \in files
    /\ bitcoind = "off"
    /\ final_step = Final_new

SpendInit(coinLists, networks, profiles) ==
    \E cl \in coinLists, d \in InitDescriptors, tl \in InitTimelocks,
       bh \in InitBlockheights, net \in networks, oc \in profiles :
        LET s == DefineSpend_new(d, cl, tl, bh)
        IN  /\ balance_available = s.balance_available
            /\ descriptor = s.descriptor
            /\ timelock = s.timelock
            /\ generated = s.generated
            /\ coins = s.coins
            /\ recipients = s.recipients
            /\ is_valid = s.is_valid
            /\ is_duplicate = s.is_duplicate
            /\ feerate = s.feerate
            /\ amount_left_to_select = s.amount_left_to_select
            /\ warning = s.warning
            /\ panicked = s.panicked
            /\ network = net
            /\ overflow_checks = oc
            /\ pending = <<>>
            /\ draft = TransactionDraftDefault
            /\ feerate_field = <<>>
            /\ coin_list = cl
            /\ blockheight = bh
            /\ spend = SaveSpend_new.spend

InitOf(coinLists, networks, profiles) ==
    /\ SpendInit(coinLists, networks, profiles)
    /\ InstallerInit({None})

AddRecipient ==
    /\ Len(recipients) < MaxRecipients
    /\ \E s \in {update_AddRecipient(Self)} : Handled(s, pending, feerate_field)

DeleteRecipient(i) ==
    \E s \in {update_DeleteRecipient(Self, i)} : Handled(s, pending, feerate_field)

RecipientEdited(i, field, text) ==
    \E s \in {update_RecipientEdited(Self, network, i, field, text)} :
        Handled(s, pending, feerate_field)

FeerateEdited(text) ==
    \E s \in {update_FeerateEdited(Self, text, overflow_checks)} :
        Handled(s, pending, text)

SelectCoin(i) ==
    \E s \in {update_SelectCoin(Self, i, overflow_checks)} :
        Handled(s, pending, feerate_field)

\* the presentation layer issues Generate only while is_valid is true, and
\* not again before the request it issued has been answered
GenerateOffered == is_valid /\ pending = <<>>

Generate ==
    /\ GenerateOffered
    /\ \E s \in {update_Generate(Self)} :
           Handled(s, Append(pending, GenerateRequest(Self)), feerate_field)

\* the transaction the daemon builds for a request
PsbtOf(req) == [inputs |-> req.inputs, outputs |-> req.outputs]

\* the answers the daemon can give to a command in flight
DaemonAnswers(cmd) ==
    IF cmd.kind = "create_spend_tx"
    THEN {Ok(PsbtOf(cmd))} \cup {Err(e) : e \in DaemonErrors}
    ELSE {}

\* a create_spend_tx call completes and Message::Psbt(res) is handled
Psbt(k, res) ==
    \E s \in {update_Psbt(Self, res)} :
        Handled(s, RemoveAt(pending, k)
                     \o (IF res.ok THEN << [kind |-> "Next"] >> ELSE <<>>),
                feerate_field)

\* the wizard handles Message::View(Next): it applies the step to the draft
\* and loads the next stage from the draft
Advance(k) ==
    /\ ~panicked
    /\ pending[k].kind = "Next"
    /\ \E d \in {DefineSpend_apply(Self, draft)} :
           \E s \in {SaveSpend_load([spend |-> spend, panicked |-> FALSE], d)} :
               /\ draft' = d
               /\ spend' = s.spend
               /\ panicked' = s.panicked
    /\ pending' = RemoveAt(pending, k)
    /\ UNCHANGED <<fields, network, overflow_checks, feerate_field,
                   coin_list, blockheight, installer_vars>>

\* ------------------------------------------------------------------------
\* Installer: the sequence of the steps and the dispatch of the messages
\* ------------------------------------------------------------------------
\* the steps: the one that sets the network, the three steps on bitcoind,
\* the last one
Steps == <<"descriptor", "select", "external", "internal", "final">>

\* the Installer object
Installer ==
    [ current |-> current,
      context |-> context,
      select_step |-> select_step,
      external_step |-> external_step,
      internal_step |-> internal_step,
      commands |-> commands ]

StoreInstaller(st) ==
    /\ current' = st.current
    /\ context' = st.context
    /\ select_step' = st.select_step
    /\ external_step' = st.external_step
    /\ internal_step' = st.internal_step
    /\ commands' = st.commands

\* Command::batch of the commands in flight and the one a handler returns
WithCommand(cmds, command) ==
    IF command.some THEN Append(cmds, command.val) ELSE cmds

\* Step::skip of the step at position i
Step_skip(i, ctx) ==
    CASE Steps[i] = "external" -> DefineBitcoind_skip(ctx)
      [] Steps[i] = "internal" -> InternalBitcoindStep_skip(ctx)
      [] OTHER -> FALSE

RECURSIVE SkipForward(_, _)
SkipForward(i, ctx) ==
    IF i < Len(Steps) /\ Step_skip(i, ctx) THEN SkipForward(i + 1, ctx) ELSE i

RECURSIVE SkipBackward(_, _)
SkipBackward(i, ctx) ==
    IF i > 1 /\ Step_skip(i, ctx) THEN SkipBackward(i - 1, ctx) ELSE i

\* Step::apply of the current step: the installer after it, and its result.
\* chosen: the network the step that sets it writes into the context
Installer_apply(st, chosen) ==
    CASE Steps[st.current] = "descriptor" ->
             [ st |-> [st EXCEPT !.context.bitcoin_config.network = chosen],
               result |-> TRUE ]
      [] Steps[st.current] = "select" ->
             Only({ [ st |-> [st EXCEPT !.select_step = r.self,
                                        !.context = r.ctx],
                      result |-> r.result ]
                  : r \in {SelectBitcoindTypeStep_apply(st.select_step,
                                                        st.context)} })
      [] Steps[st.current] = "external" ->
             Only({ [ st |-> [st EXCEPT !.external_step = r.self,
                                        !.context = r.ctx],
                      result |-> r.result ]
                  : r \in {DefineBitcoind_apply(st.external_step, st.context)} })
      [] Steps[st.current] = "internal" ->
             Only({ [ st |-> [st EXCEPT !.internal_step = r.self,
                                        !.context = r.ctx],
                      result |-> r.result ]
                  : r \in {InternalBitcoindStep_apply(st.internal_step,
                                                      st.context)} })
      [] OTHER -> [st |-> st, result |-> TRUE]

\* Step::load_context then Step::load of the current step
Installer_load(st, found) ==
    CASE Steps[st.current] = "external" ->
             Only({ [st EXCEPT !.external_step = s1,
                               !.commands = WithCommand(@, DefineBitcoind_ping(s1))]
                  : s1 \in {DefineBitcoind_load_context(st.external_step,
                                                        st.context)} })
      [] Steps[st.current] = "internal" ->
             Only({ [st EXCEPT !.internal_step = s1,
                               !.commands =
                                   WithCommand(@, InternalBitcoindStep_load(s1))]
                  : s1 \in {InternalBitcoindStep_load_context(
                                st.internal_step, st.context, found)} })
      [] OTHER -> st

\* Installer::next
Installer_next(st, chosen, found) ==
    Only({ IF ~applied.result THEN applied.st
           ELSE Installer_load(
                    [applied.st EXCEPT !.current =
                        SkipForward(IF @ < Len(Steps) THEN @ + 1 ELSE @,
                                    applied.st.context)],
                    found)
         : applied \in {Installer_apply(st, chosen)} })

\* Installer::previous
Installer_previous(st) ==
    IF st.current > 1
    THEN [st EXCEPT !.current = SkipBackward(@ - 1, st.context)]
    ELSE st

\* ------------------------------------------------------------------------
\* Installer: actions.  The messages of the views are handled when the user
\* acts; the messages of the commands when the commands complete.
\* ------------------------------------------------------------------------
\* the commands that may be in flight at once
MaxCommands == 2

Running == ~internal_step.panicked

\* the result of which::which("bitcoind")
ExePaths == {None, Some("bitcoind")}

\* the installer handles Message::Next
HandleNext(cmds, chosen, found) ==
    /\ \E st \in {Installer_next([Installer EXCEPT !.commands = cmds],
                                 chosen, found)} : StoreInstaller(st)
    /\ UNCHANGED <<conf_file, bitcoind, final_step,
                   spend_vars>>

\* the installer handles Message::Previous
HandlePrevious(cmds) ==
    /\ \E st \in {Installer_previous([Installer EXCEPT !.commands = cmds])} :
           StoreInstaller(st)
    /\ UNCHANGED <<conf_file, bitcoind, final_step,
                   spend_vars>>

\* the user presses Next on a step whose view has the button; on the step
\* that sets the network, having chosen one
UserNext(chosen, found) ==
    /\ Running
    /\ Steps[current] \in {"descriptor", "external", "internal"}
    /\ Steps[current] # "descriptor" => chosen = context.bitcoin_config.network
    /\ Len(commands) < MaxCommands
    /\ HandleNext(commands, chosen, found)

\* the user presses Previous on a step that emits Message::Previous itself
UserPrevious ==
    /\ Running
    /\ Steps[current] \in {"select", "external", "final"}
    /\ HandlePrevious(commands)

\* the user chooses the type of bitcoind
UseExternal(selected) ==
    /\ Running
    /\ Steps[current] = "select"
    /\ Len(commands) < MaxCommands
    /\ \E r \in {SelectBitcoindTypeStep_update(select_step, selected)} :
           /\ select_step' = r.self
           /\ commands' = WithCommand(commands, r.command)
    /\ UNCHANGED <<current, context, external_step, internal_step, conf_file,
                   bitcoind, final_step,
                   spend_vars>>

\* the user presses Previous on InternalBitcoindStep
InternalPrevious ==
    /\ Running
    /\ Steps[current] = "internal"
    /\ Len(commands) < MaxCommands
    /\ \E r \in {InternalBitcoindStep_Previous(internal_step)} :
           /\ internal_step' = r.self
           /\ bitcoind' = IF r.stops THEN "stopped" ELSE bitcoind
           /\ commands' = WithCommand(commands, r.command)
    /\ UNCHANGED <<current, context, select_step, external_step, conf_file,
                   final_step,
                   spend_vars>>

\* a command completes with Message::Next
DeliverNext(k, found) ==
    /\ Running
    /\ commands[k].kind = "Next"
    /\ HandleNext(RemoveAt(commands, k), context.bitcoin_config.network, found)

\* a command completes with Message::Previous
DeliverPrevious(k) ==
    /\ Running
    /\ commands[k].kind = "Previous"
    /\ HandlePrevious(RemoveAt(commands, k))

\* a command completes with a message the current step has no arm for
Ignored(k) ==
    /\ Running
    /\ \/ /\ commands[k].kind \in {"DefineConfig", "Reload", "Start"}
          /\ Steps[current] # "internal"
       \/ /\ commands[k].kind = "ping"
          /\ Steps[current] # "external"
    /\ commands' = RemoveAt(commands, k)
    /\ UNCHANGED <<current, context, select_step, external_step, internal_step,
                   conf_file, bitcoind, final_step,
                   spend_vars>>

\* InternalBitcoindStep handles InternalBitcoindMsg::Reload
Reload(k) ==
    /\ Running
    /\ commands[k].kind = "Reload"
    /\ Steps[current] = "internal"
    /\ commands' = WithCommand(RemoveAt(commands, k),
                               InternalBitcoindStep_load(internal_step))
    /\ UNCHANGED <<current, context, select_step, external_step, internal_step,
                   conf_file, bitcoind, final_step,
                   spend_vars>>

\* InternalBitcoindStep handles InternalBitcoindMsg::DefineConfig
DefineConfig(k, binds_rpc, binds_p2p, written) ==
    /\ Running
    /\ commands[k].kind = "DefineConfig"
    /\ Steps[current] = "internal"
    /\ \E r \in {InternalBitcoindStep_DefineConfig(internal_step, conf_file,
                     binds_rpc, binds_p2p, written)} :
           /\ internal_step' = r.self
           /\ conf_file' = r.file
           /\ commands' = WithCommand(RemoveAt(commands, k), r.command)
    /\ UNCHANGED <<current, context, select_step, external_step, bitcoind,
                   final_step,
                   spend_vars>>

\* InternalBitcoindStep handles InternalBitcoindMsg::Start
Start(k, fails) ==
    /\ Running
    /\ commands[k].kind = "Start"
    /\ Steps[current] = "internal"
    /\ \E r \in {InternalBitcoindStep_Start(internal_step, fails)} :
           /\ internal_step' = r.self
           /\ bitcoind' = IF r.spawned THEN "running" ELSE bitcoind
    /\ commands' = RemoveAt(commands, k)
    /\ UNCHANGED <<current, context, select_step, external_step, conf_file,
                   final_step,
                   spend_vars>>

\* DefineBitcoind handles PingBitcoindResult(res), the answer to a ping
PingBitcoindResult(k, res) ==
    /\ Running
    /\ commands[k].kind = "ping"
    /\ Steps[current] = "external"
    /\ \E r \in {DefineBitcoind_PingBitcoindResult(external_step, res)} :
           /\ external_step' = r.self
           /\ commands' = WithCommand(RemoveAt(commands, k), r.command)
    /\ UNCHANGED <<current, context, select_step, internal_step, conf_file,
                   bitcoind, final_step,
                   spend_vars>>

\* the user edits the address of the external bitcoind
AddressEdited(text) ==
    /\ Running
    /\ Steps[current] = "external"
    /\ \E r \in {DefineBitcoind_AddressEdited(external_step, text)} :
           /\ external_step' = r.self
           /\ commands' = WithCommand(commands, r.command)
    /\ UNCHANGED <<current, context, select_step, internal_step, conf_file,
                   bitcoind, final_step,
                   spend_vars>>

\* the user edits the path of the cookie file
CookiePathEdited(path) ==
    /\ Running
    /\ Steps[current] = "external"
    /\ \E r \in {DefineBitcoind_CookiePathEdited(external_step, path)} :
           /\ external_step' = r.self
           /\ commands' = WithCommand(commands, r.command)
    /\ UNCHANGED <<current, context, select_step, internal_step, conf_file,
                   bitcoind, final_step,
                   spend_vars>>

\* the user asks for the connection to be checked
PingBitcoind ==
    /\ Running
    /\ Steps[current] = "external"
    /\ Len(commands) < MaxCommands
    /\ \E r \in {DefineBitcoind_PingBitcoind(external_step)} :
           /\ external_step' = r.self
           /\ commands' = WithCommand(commands, r.command)
    /\ UNCHANGED <<current, context, select_step, internal_step, conf_file,
                   bitcoind, final_step,
                   spend_vars>>

\* view::install shows the button that emits Message::Install when the
\* step is not generating and holds no config_path
InstallOffered == ~final_step.generating /\ ~final_step.config_path.some

\* the user presses the button: Final handles Message::Install and the
\* installer dispatches the installation
Install ==
    /\ Running
    /\ Steps[current] = "final"
    /\ InstallOffered
    /\ Len(commands) < MaxCommands
    /\ final_step' = Final_Install(final_step)
    /\ commands' = Append(commands, [kind |-> "install"])
    /\ UNCHANGED <<current, context, select_step, external_step, internal_step,
                   conf_file, bitcoind, spend_vars>>

\* the installation completes: Final handles Message::Installed(res)
Installed(k, res) ==
    /\ Running
    /\ commands[k].kind = "install"
    /\ Steps[current] = "final"
    /\ final_step' = Final_Installed(final_step, res)
    /\ commands' = RemoveAt(commands, k)
    /\ UNCHANGED <<current, context, select_step, external_step, internal_step,
                   conf_file, bitcoind, spend_vars>>

\* the installation completes while another step is shown, which has no
\* arm for Message::Installed
InstalledIgnored(k) ==
    /\ Running
    /\ commands[k].kind = "install"
    /\ Steps[current] # "final"
    /\ commands' = RemoveAt(commands, k)
    /\ UNCHANGED <<current, context, select_step, external_step, internal_step,
                   conf_file, bitcoind, final_step, spend_vars>>

\* ------------------------------------------------------------------------
\* Specification SpecInstaller: the navigation between the steps on
\* bitcoind, the configuration and the start of the internal bitcoind
\* ------------------------------------------------------------------------
\* the answers of the system to the binds of one get_available_port call:
\* retries default ports of bitcoind, then the answer last
Binds(retries, last) ==
    [i \in 1..PORT_ATTEMPTS |-> IF i <= retries THEN Ok(8332) ELSE last]

InstallerNetworks == {"bitcoin", "testnet"}
InstallerBindsRpc == { Binds(0, Ok(40001)), Binds(0, Err("bind")) }
InstallerBindsP2p == { Binds(9, Ok(40002)), Binds(0, Ok(40001)) }
InstallerStartFailures == {"none", "connection"}
PingResults == {Ok("unit"), Err("Bitcoind")}

SpendIdle == SpendInit({<<>>}, {"bitcoin"}, {FALSE})

InitInstaller == SpendIdle /\ InstallerInit({None})

NextInstaller ==
    \/ \E chosen \in InstallerNetworks, found \in ExePaths :
           UserNext(chosen, found)
    \/ UserPrevious
    \/ \E selected \in BOOLEAN : UseExternal(selected)
    \/ InternalPrevious
    \/ \E k \in 1..Len(commands), found \in ExePaths : DeliverNext(k, found)
    \/ \E k \in 1..Len(commands) : DeliverPrevious(k)
    \/ \E k \in 1..Len(commands) : Ignored(k)
    \/ \E k \in 1..Len(commands) : Reload(k)
    \/ \E k \in 1..Len(commands), binds_rpc \in InstallerBindsRpc,
          binds_p2p \in InstallerBindsP2p, written \in BOOLEAN :
           DefineConfig(k, binds_rpc, binds_p2p, written)
    \/ \E k \in 1..Len(commands), fails \in InstallerStartFailures :
           Start(k, fails)
    \/ \E k \in 1..Len(commands), res \in PingResults :
           PingBitcoindResult(k, res)

SpecInstaller == InitInstaller /\ [][NextInstaller]_vars

\* ------------------------------------------------------------------------
\* Specification SpecSettled: the same navigation when every command
\* completes before the user acts again
\* ------------------------------------------------------------------------
NextSettled ==
    \/ \E chosen \in InstallerNetworks, found \in ExePaths :
           commands = <<>> /\ UserNext(chosen, found)
    \/ commands = <<>> /\ UserPrevious
    \/ \E selected \in BOOLEAN : commands = <<>> /\ UseExternal(selected)
    \/ commands = <<>> /\ InternalPrevious
    \/ \E found \in ExePaths : commands # <<>> /\ DeliverNext(1, found)
    \/ commands # <<>> /\ DeliverPrevious(1)
    \/ commands # <<>> /\ Reload(1)
    \/ \E binds_rpc \in InstallerBindsRpc, binds_p2p \in InstallerBindsP2p,
          written \in BOOLEAN :
           commands # <<>> /\ DefineConfig(1, binds_rpc, binds_p2p, written)
    \/ \E fails \in InstallerStartFailures : commands # <<>> /\ Start(1, fails)
    \/ \E res \in PingResults : commands # <<>> /\ PingBitcoindResult(1, res)

SpecSettled == InitInstaller /\ [][NextSettled]_vars

\* ------------------------------------------------------------------------
\* Specification SpecExternal: the external bitcoind, its address and
\* cookie path edited while pings are in flight
\* ------------------------------------------------------------------------
ExternalAddressTexts == {"127.0.0.1:8332", "127.0.0.1:9999", "junk"}
ExternalCookiePaths == {<<".bitcoin", ".cookie">>, <<"other", ".cookie">>}

NextExternal ==
    \/ UserNext("bitcoin", None)
    \/ UserPrevious
    \/ UseExternal(TRUE)
    \/ \E k \in 1..Len(commands) : DeliverNext(k, None)
    \/ \E k \in 1..Len(commands) : Ignored(k)
    \/ \E text \in ExternalAddressTexts : AddressEdited(text)
    \/ \E path \in ExternalCookiePaths : CookiePathEdited(path)
    \/ PingBitcoind
    \/ \E k \in 1..Len(commands), res \in PingResults :
           PingBitcoindResult(k, res)

SpecExternal == InitInstaller /\ [][NextExternal]_vars

\* ------------------------------------------------------------------------
\* Specification SpecFinal: the installation asked for on the step Final,
\* reached through the external bitcoind, and its results
\* ------------------------------------------------------------------------
InstallResults == {Ok("liana.toml"), Err("CannotCreateDatadir"), Err("Bitcoind")}

NextFinal ==
    \/ UserNext("bitcoin", None)
    \/ UserPrevious
    \/ UseExternal(TRUE)
    \/ \E k \in 1..Len(commands) : DeliverNext(k, None)
    \/ \E k \in 1..Len(commands) : Ignored(k)
    \/ \E k \in 1..Len(commands), res \in PingResults :
           PingBitcoindResult(k, res)
    \/ Install
    \/ \E k \in 1..Len(commands), res \in InstallResults : Installed(k, res)
    \/ \E k \in 1..Len(commands) : InstalledIgnored(k)

SpecFinal == InitInstaller /\ [][NextFinal]_vars

\* ------------------------------------------------------------------------
\* Specification SpecConfig: the internal bitcoind chosen on each network,
\* over many files bitcoin.conf and many answers of the system to the binds
\* ------------------------------------------------------------------------
Prop(key, value) == [key |-> key, value |-> value]
Section(name, props) == [name |-> name, props |-> props]

\* the file of tests::internal_bitcoind_config
TestIni ==
    [ general |-> <<>>,
      sections |->
        << Section("main", << Prop("rpcport", <<"4", "3", "3", "4", "5">>),
                              Prop("port", <<"4", "2", "3", "5", "5">>),
                              Prop("prune", <<"1", "5", "2", "4", "6">>) >>),
           Section("regtest", << Prop("rpcport", <<"3", "4", "0", "6", "7">>),
                                 Prop("port", <<"4", "5", "1", "7", "5">>),
                                 Prop("prune", <<"2", "0", "4", "3">>) >>) >> ]

\* the smallest and the largest values, a sign, leading zeros, keys in
\* another order, equal ports
EdgeIni ==
    [ general |-> <<>>,
      sections |->
        << Section("test", << Prop("prune", <<"4", "2", "9", "4", "9", "6",
                                              "7", "2", "9", "5">>),
                              Prop("rpcport", <<"0">>),
                              Prop("port", <<"6", "5", "5", "3", "5">>) >>),
           Section("signet", << Prop("rpcport", <<"+", "8", "3", "3", "2">>),
                                Prop("port", <<"0", "8", "3", "3", "2">>),
                                Prop("prune", <<"0">>) >>) >> ]

\* two sections for one network
TwiceIni ==
    [ general |-> <<>>,
      sections |->
        << Section("main", << Prop("rpcport", <<"1">>), Prop("port", <<"2">>),
                              Prop("prune", <<"3">>) >>),
           Section("main", << Prop("rpcport", <<"4">>), Prop("port", <<"5">>),
                              Prop("prune", <<"6">>) >>) >> ]

\* files from_ini rejects: a port above u16, a key missing, a fourth
\* key, a section that is no network, a key in the general section
BadInis ==
    { [ general |-> <<>>,
        sections |-> << Section("main", << Prop("rpcport", <<"6", "5", "5", "3", "6">>),
                                           Prop("port", <<"2">>),
                                           Prop("prune", <<"3">>) >>) >> ],
      [ general |-> <<>>,
        sections |-> << Section("main", << Prop("rpcport", <<"1">>),
                                           Prop("prune", <<"3">>) >>) >> ],
      [ general |-> <<>>,
        sections |-> << Section("main", << Prop("rpcport", <<"1">>),
                                           Prop("port", <<"2">>),
                                           Prop("prune", <<"3">>),
                                           Prop("server", <<"1">>) >>) >> ],
      [ general |-> <<>>,
        sections |-> << Section("mainnet", << Prop("rpcport", <<"1">>),
                                              Prop("port", <<"2">>),
                                              Prop("prune", <<"3">>) >>) >> ],
      [ general |-> << Prop("server", <<"1">>) >>, sections |-> <<>> ] }

ConfigFiles ==
    {None, Some(Ini_new), Some(TestIni), Some(EdgeIni), Some(TwiceIni)}
        \cup { Some(conf_ini) : conf_ini \in BadInis }

ConfigNetworks == {"bitcoin", "regtest"}
ConfigBinds ==
    { Binds(0, Ok(40001)), Binds(9, Ok(40002)), Binds(1, Err("bind")),
      Binds(PORT_ATTEMPTS, Ok(40001)) }

InitConfig == SpendIdle /\ InstallerInit(ConfigFiles)

NextConfig ==
    \/ \E chosen \in ConfigNetworks : UserNext(chosen, Some("bitcoind"))
    \/ UserPrevious
    \/ UseExternal(FALSE)
    \/ InternalPrevious
    \/ \E k \in 1..Len(commands) : DeliverNext(k, Some("bitcoind"))
    \/ \E k \in 1..Len(commands) : DeliverPrevious(k)
    \/ \E k \in 1..Len(commands) : Ignored(k)
    \/ \E k \in 1..Len(commands) : Reload(k)
    \/ \E k \in 1..Len(commands), binds_rpc \in ConfigBinds,
          binds_p2p \in ConfigBinds, written \in BOOLEAN :
           DefineConfig(k, binds_rpc, binds_p2p, written)
    \/ \E k \in 1..Len(commands) : Start(k, "none")

SpecConfig == InitConfig /\ [][NextConfig]_vars

\* ------------------------------------------------------------------------
\* Specification Spec: every message, the daemon and the wizard
\* ------------------------------------------------------------------------
AddressTexts == {"", "bc1qa", "bc1qb", "junk"}
AmountTexts == { <<>>, ValidAmountText }
FeerateTexts == { <<>>, <<"0">>, <<"1">>, <<"x">> }

Init == InitOf(FlowCoinLists, {"bitcoin"}, {FALSE})

Next ==
    \/ AddRecipient
    \/ \E i \in 1..Len(recipients) : DeleteRecipient(i)
    \/ \E i \in 1..Len(recipients), text \in AddressTexts :
           RecipientEdited(i, "address", text)
    \/ \E i \in 1..Len(recipients), text \in AmountTexts :
           RecipientEdited(i, "amount", text)
    \/ \E s \in FeerateTexts : FeerateEdited(s)
    \/ \E i \in 1..(Len(coins) + 1) : SelectCoin(i)
    \/ Generate
    \/ \E k \in 1..Len(pending) : \E res \in DaemonAnswers(pending[k]) :
           Psbt(k, res)
    \/ \E k \in 1..Len(pending) : Advance(k)

Spec == Init /\ [][Next]_vars

\* ------------------------------------------------------------------------
\* Specification SpecEdit: the editing messages, over richer texts and
\* both build profiles
\* ------------------------------------------------------------------------
EditAddressTexts == {"", "bc1qa", "junk"}
EditAmountTexts == { <<>>, <<"0">>, ValidAmountText }
EditFeerateTexts == { <<>>, <<"1">>, <<"x">>, U64MaxText }

InitEdit == InitOf(InitCoinLists, {"bitcoin"}, BOOLEAN)

NextEdit ==
    \/ AddRecipient
    \/ \E i \in 1..Len(recipients) : DeleteRecipient(i)
    \/ \E i \in 1..Len(recipients), text \in EditAddressTexts :
           RecipientEdited(i, "address", text)
    \/ \E i \in 1..Len(recipients), text \in EditAmountTexts :
           RecipientEdited(i, "amount", text)
    \/ \E s \in EditFeerateTexts : FeerateEdited(s)
    \/ \E i \in 1..(Len(coins) + 1) : SelectCoin(i)

SpecEdit == InitEdit /\ [][NextEdit]_vars

\* ------------------------------------------------------------------------
\* Specification SpecRecipient: one recipient edited over many texts, on
\* several networks
\* ------------------------------------------------------------------------
RecAddressTexts ==
    {"", "bc1qa", "BC1QA", "1pkh", "3sh", "bc1pt", "tb1qa", "mpkh", "junk"}
RecAmountTexts ==
    { <<>>,
      <<"0">>,
      <<"x">>,
      <<"0", ".", "0", "0", "0", "1">>,
      <<"0", ".", "0", "0", "0", "0", "5">>,
      <<"0", ".", "0", "0", "0", "0", "4", "9", "9", "9">>,
      <<"0", ".", "0", "0", "0", "0", "0", "5", "4", "6">>,
      <<"0", ".", "0", "0", "0", "0", "0", "2", "9", "4">>,
      <<"0", ".", "0", "0", "0", "0", "0", "0", "0", "0", "1">>,
      <<"-", "1">>,
      <<"1", ".">>,
      <<"1", ".", ".">>,
      <<"1", "8", "4", "4", "6", "7", "4", "4", "0", "7", "3", "7", ".", "0", "9", "5", "5", "1", "6", "1", "6">>,
      <<"9", "2", "2", "3", "3", "7", "2", "0", "3", "6", "8", ".", "5", "4", "7", "7", "5", "8", "0", "8">> }

InitRecipient == InitOf(FlowCoinLists, {"bitcoin", "testnet", "regtest"}, {FALSE})

NextRecipient ==
    \/ \E text \in RecAddressTexts : RecipientEdited(1, "address", text)
    \/ \E text \in RecAmountTexts : RecipientEdited(1, "amount", text)

SpecRecipient == InitRecipient /\ [][NextRecipient]_vars

\* ------------------------------------------------------------------------
\* Specification SpecNetwork: a draft that is complete but for its one
\* recipient, whose address is edited over the encodings of several
\* networks, on each network
\* ------------------------------------------------------------------------
NetAddressTexts == {"", "bc1qa", "1pkh", "tb1qa", "mpkh", "junk"}
NetAmountTexts == { <<>>, ValidAmountText }
NetFeerateTexts == { <<"1">> }

InitNetwork == InitOf(FlowCoinLists, {"bitcoin", "testnet", "regtest"}, {FALSE})

NextNetwork ==
    \/ \E text \in NetAddressTexts : RecipientEdited(1, "address", text)
    \/ \E text \in NetAmountTexts : RecipientEdited(1, "amount", text)
    \/ \E s \in NetFeerateTexts : FeerateEdited(s)
    \/ \E i \in 1..Len(coins) : SelectCoin(i)

SpecNetwork == InitNetwork /\ [][NextNetwork]_vars

\* ------------------------------------------------------------------------
\* Specification SpecNew: DefineSpend::new on every list of up to three
\* distinct coins, confirmed at several heights, unconfirmed or spent;
\* then coin toggles
\* ------------------------------------------------------------------------
NewCoins ==
    { Coin(1, 8000, Some(100), FALSE),
      Coin(2, 20000, Some(90), FALSE),
      Coin(3, 30000, Some(80), FALSE),
      Coin(4, 5000, None, FALSE),
      Coin(5, 40000, Some(100), TRUE) }

NewCoinLists ==
    { q \in UNION { [1..n -> NewCoins] : n \in 0..3 } :
        \A i, j \in DOMAIN q : i # j => q[i] # q[j] }

InitNew == InitOf(NewCoinLists, {"bitcoin"}, {FALSE})

NextNew == \E i \in 1..(Len(coins) + 1) : SelectCoin(i)

SpecNew == InitNew /\ [][NextNew]_vars

\* ------------------------------------------------------------------------
\* Specification SpecUnwrap: recipients edited over addresses of several
\* kinds and networks and over amounts around the dust values, in any
\* order, with the coins, the feerate and Generate
\* ------------------------------------------------------------------------
UnwrapAddressTexts == {"", "bc1qa", "1pkh", "tb1qa", "junk"}
UnwrapAmountTexts ==
    { <<>>,
      <<"x">>,
      <<"0", ".", "0", "0", "0", "0", "5">>,
      <<"0", ".", "0", "0", "0", "0", "0", "5", "4", "6">> }
UnwrapFeerateTexts == { <<"1">> }

InitUnwrap == InitOf(FlowCoinLists, {"bitcoin", "testnet"}, {FALSE})

NextUnwrap ==
    \/ AddRecipient
    \/ \E i \in 1..Len(recipients) : DeleteRecipient(i)
    \/ \E i \in 1..Len(recipients), text \in UnwrapAddressTexts :
           RecipientEdited(i, "address", text)
    \/ \E i \in 1..Len(recipients), text \in UnwrapAmountTexts :
           RecipientEdited(i, "amount", text)
    \/ \E s \in UnwrapFeerateTexts : FeerateEdited(s)
    \/ \E i \in 1..Len(coins) : SelectCoin(i)
    \/ Generate

SpecUnwrap == InitUnwrap /\ [][NextUnwrap]_vars

\* ------------------------------------------------------------------------
\* Specification SpecCoins: two selectable coins that DefineSpend::new
\* reorders, under every message, the daemon and the wizard
\* ------------------------------------------------------------------------
CoinsAddressTexts == {"", "bc1qa"}
CoinsAmountTexts == { <<>>, ValidAmountText }
CoinsFeerateTexts == { <<"1">> }

InitCoins == InitOf(InitCoinLists, {"bitcoin"}, {FALSE})

NextCoins ==
    \/ AddRecipient
    \/ \E i \in 1..Len(recipients) : DeleteRecipient(i)
    \/ \E i \in 1..Len(recipients), text \in CoinsAddressTexts :
           RecipientEdited(i, "address", text)
    \/ \E i \in 1..Len(recipients), text \in CoinsAmountTexts :
           RecipientEdited(i, "amount", text)
    \/ \E s \in CoinsFeerateTexts : FeerateEdited(s)
    \/ \E i \in 1..(Len(coins) + 1) : SelectCoin(i)
    \/ Generate
    \/ \E k \in 1..Len(pending) : \E res \in DaemonAnswers(pending[k]) :
           Psbt(k, res)
    \/ \E k \in 1..Len(pending) : Advance(k)

SpecCoins == InitCoins /\ [][NextCoins]_vars

\* ------------------------------------------------------------------------
\* Properties
\* ------------------------------------------------------------------------
\* the text last typed in the feerate field is non-empty and parses to an
\* integer greater than 0
FeeratePositive ==
    LET typed == parse_u64(feerate_field)
    IN  feerate_field # <<>> /\ typed.ok /\ typed.val # <<>>

\* two recipients at different positions hold the same non-empty address text
HasEqualAddresses ==
    \E i, j \in 1..Len(recipients) :
        /\ i # j
        /\ recipients[i].address.value # ""
        /\ recipients[i].address.value = recipients[j].address.value

\* C1: after every message, is_valid is true exactly when the text last
\* typed in the feerate field is non-empty and parses to an integer greater
\* than 0, a coin is selected and every recipient is valid; with no coin
\* selected it is false.
C1_IsValidUpToDate ==
    /\ is_valid <=> /\ FeeratePositive
                    /\ AnySelected(coins)
                    /\ \A i \in 1..Len(recipients) : Recipient_valid(recipients[i])
    /\ ~AnySelected(coins) => ~is_valid

\* C1 witness: is_valid is true with two recipients after a Generate has
\* been answered with a transaction
C1_Witness ==
    is_valid /\ Len(recipients) = 2 /\ generated.some /\ AnySelected(coins)

\* C2, as stated: whenever two recipients hold the same non-empty address
\* text, is_duplicate is true and is_valid is false.
C2_DuplicatesInvalidate ==
    HasEqualAddresses => is_duplicate /\ ~is_valid

\* C3: is_duplicate is true if and only if two recipients at different
\* positions hold the same non-empty address text; empty addresses never
\* count as duplicates of each other.
C3_IsDuplicateIffEqualPair ==
    /\ is_duplicate <=> HasEqualAddresses
    /\ (\A i \in 1..Len(recipients) : recipients[i].address.value = "")
           => ~is_duplicate

\* C3 witness: the second of two recipients repeats the address of the first
C3_Witness ==
    /\ Len(recipients) = 2
    /\ recipients[1].address.value = "bc1qa"
    /\ recipients[2].address.value = "bc1qa"
    /\ is_duplicate

\* C4, as stated: amount_left_to_select is None if and only if the text in
\* the feerate field is empty or fails to parse as an unsigned integer.
C4_NoneIffFeerateUnusable ==
    ~amount_left_to_select.some
        <=> (feerate_field = <<>> \/ ~parse_u64(feerate_field).ok)

\* max(0, needed - selected) as the claims state it, in exact arithmetic, on
\* the selected coins, the stored feerate and the valid recipients of s
ClaimedAmountLeft(s) ==
    LET selected_coins == SelectedCoins(s.coins)
        outs == TxOuts(ValidRecipients(s.recipients))
        size == tx_vsize(Len(selected_coins), outs)
                + (s.descriptor.max_sat_weight \div 4) * Len(selected_coins) + 43
        needed == BigAdd(BigMulSmall(parse_u64(s.feerate.value).val, size),
                         SumSeq(OutValues(outs)))
        selected == SumSeq(AmountOf(selected_coins))
    IN  IF BigLeq(needed, selected) THEN <<>> ELSE BigSub(needed, selected)

\* a coin is toggled while the stored feerate parses
ToggleStep ==
    /\ parse_u64(feerate.value).ok
    /\ \E i \in 1..Len(coins) : SelectCoin(i)

\* the feerate is edited to a text that parses
ParsableFeerateStep ==
    \E text \in EditFeerateTexts : parse_u64(text).ok /\ FeerateEdited(text)

\* C5, as stated: immediately after a coin toggle or a parsable feerate
\* edit, amount_left_to_select is max(0, needed - selected).
C5_AmountLeftIsFormula ==
    [][ (ToggleStep \/ ParsableFeerateStep)
          => /\ ~panicked'
             /\ amount_left_to_select' = Some(ClaimedAmountLeft(Self')) ]_vars

\* C6, as stated: from every reachable state, SelectCoin(i) handled twice in
\* a row leaves amount_left_to_select and balance_available as they were.
C6_DoubleToggleRestores ==
    ~panicked =>
        \A i \in 1..Len(coins) :
            LET once == update_SelectCoin(Self, i, overflow_checks)
                twice == update_SelectCoin(once, i, overflow_checks)
            IN  /\ ~once.panicked /\ ~twice.panicked
                /\ twice.amount_left_to_select = amount_left_to_select
                /\ twice.balance_available = balance_available

\* C7, as stated: in every reachable state where amount_left_to_select is
\* present, it is the estimate on the current selected coins, the current
\* feerate and the currently valid recipients.
C7_AmountLeftCurrent ==
    amount_left_to_select.some
        => amount_left_to_select = Some(ClaimedAmountLeft(Self))

\* the outcome the claim gives for the validation of r's amount: a failure
\* for a text that is empty, unparsable, worth 0, worth less than 5,000
\* satoshis or, when the address parses, not above its script's dust value;
\* the parsed amount otherwise
AmountOutcomeAsClaimed(r) ==
    LET parsed == Amount_from_str_in(r.amount.value)
        address == Address_from_str(r.address.value)
        res == Recipient_amount(r)
        fails == \/ r.amount.value = <<>>
                 \/ ~parsed.ok
                 \/ parsed.val = <<>>
                 \/ BigLess(parsed.val, Big(5000))
                 \/ address.ok /\ BigLeq(parsed.val, Big(dust_value(address.val)))
    IN  /\ fails <=> ~res.ok
        /\ ~fails => res = Ok(parsed.val)
        /\ r.amount.value = <<"0">> => res = Err("Amount should be non-zero")
        /\ r.amount.value = <<"x">> => res = Err("cannot parse output amount")
        /\ r.amount.value = <<"0", ".", "0", "0", "0", "0", "5">>
               => res = Ok(Big(5000))
        /\ r.amount.value = <<"0", ".", "0", "0", "0", "0", "4", "9", "9", "9">>
               => ~res.ok
        /\ r.amount.value = ValidAmountText => res = Ok(Big(10000))

\* C8: the validation of a recipient's amount fails for a text that is
\* empty, unparsable, worth 0, worth less than 5,000 satoshis or not above
\* the dust value of the address's script; "0" fails with the zero/dust
\* error; every other text succeeds with the parsed amount in satoshis.
C8_AmountValidation ==
    \A i \in 1..Len(recipients) : AmountOutcomeAsClaimed(recipients[i])

\* C8 witness: an amount of exactly 5,000 satoshis next to a parsed address
\* has been validated and accepted
C8_Witness ==
    /\ recipients[1].amount.value = <<"0", ".", "0", "0", "0", "0", "5">>
    /\ recipients[1].address.value = "1pkh"
    /\ recipients[1].amount.valid

\* C9: a recipient is valid only if both of its texts are non-empty and both
\* of its flags are true; a recipient with an empty address or amount is not
\* valid, and the draft it belongs to is not valid either.
C9_OnlyCompleteRecipientsValid ==
    \A i \in 1..Len(recipients) :
        ( \/ recipients[i].address.value = ""
          \/ recipients[i].amount.value = <<>>
          \/ ~recipients[i].address.valid
          \/ ~recipients[i].amount.valid )
            => ~Recipient_valid(recipients[i]) /\ ~is_valid

\* C9 witness: an empty amount with a true flag, in a draft with a coin
\* selected, a positive feerate and no other defect
C9_Witness ==
    /\ Len(recipients) = 1
    /\ recipients[1].address.value = "bc1qa" /\ recipients[1].address.valid
    /\ recipients[1].amount.value = <<>> /\ recipients[1].amount.valid
    /\ AnySelected(coins)
    /\ FeeratePositive
    /\ ~is_valid

\* C10: while a recipient's amount text is non-empty, its amount flag is the
\* outcome of the validation of the amount against the current address
\* text, whether that text parses, fails to parse or is empty.
C10_AmountFlagFollowsAddress ==
    \A i \in 1..Len(recipients) :
        recipients[i].amount.value # <<>>
            => (recipients[i].amount.valid <=> Recipient_amount(recipients[i]).ok)

\* C10 witness: a rejected amount next to an address text that fails to parse
C10_Witness ==
    /\ recipients[1].address.value = "junk"
    /\ recipients[1].amount.value = <<"0", ".", "0", "0", "0", "0", "0", "5", "4", "6">>
    /\ ~recipients[1].amount.valid

\* C11: an edit of a recipient's address or amount to the empty text leaves
\* the flag of that field true, whatever the flag was before, and leaves
\* the recipient and the draft not valid.
C11_ClearingClearsError ==
    [][ /\ RecipientEdited(1, "address", "")
            => /\ recipients'[1].address.value = ""
               /\ recipients'[1].address.valid
               /\ ~Recipient_valid(recipients'[1])
               /\ ~is_valid'
        /\ RecipientEdited(1, "amount", <<>>)
            => /\ recipients'[1].amount.value = <<>>
               /\ recipients'[1].amount.valid
               /\ ~Recipient_valid(recipients'[1])
               /\ ~is_valid' ]_vars

\* C11 witness: the address has been emptied and carries no error, next to
\* an amount that is flagged
C11_Witness ==
    /\ recipients[1].address.value = ""
    /\ recipients[1].address.valid
    /\ recipients[1].amount.value = <<"x">>
    /\ ~recipients[1].amount.valid

\* the address flag the claim gives to a non-empty address text of r
AddressFlagAsClaimed(r) ==
    LET address == Address_from_str(r.address.value)
    IN  /\ r.address.valid
            <=> (address.ok /\ is_valid_for_network(address.val, network))
        /\ (r.address.value = "junk") => ~r.address.valid
        /\ (r.address.value \in {"bc1qa", "1pkh"})
            => (r.address.valid <=> network = "bitcoin")
        /\ (r.address.value \in {"tb1qa", "mpkh"} /\ network = "bitcoin")
            => ~r.address.valid
        /\ (r.address.value = "tb1qa") => (r.address.valid <=> network = "testnet")

\* C12: the flag of a non-empty address text is true if and only if the
\* text parses as an address that is valid for the active network; an
\* address of another network is flagged and the draft is then not valid.
C12_AddressFlagFollowsNetwork ==
    \A i \in 1..Len(recipients) :
        recipients[i].address.value # ""
            => /\ AddressFlagAsClaimed(recipients[i])
               /\ ~recipients[i].address.valid => ~is_valid

\* C12 witness: a mainnet address typed on testnet is flagged, in a draft
\* with a valid amount, a coin selected and a positive feerate
C12_Witness ==
    /\ network = "testnet"
    /\ recipients[1].address.value = "bc1qa"
    /\ ~recipients[1].address.valid
    /\ recipients[1].amount.value = ValidAmountText
    /\ recipients[1].amount.valid
    /\ AnySelected(coins)
    /\ FeeratePositive
    /\ ~is_valid

\* the outpoints of the coins given to DefineSpend::new whose spend_info is
\* present
SpentOutpoints ==
    { coin_list[i].outpoint :
        i \in { j \in 1..Len(coin_list) : coin_list[j].spend_info } }

\* C13: no coin whose spend_info is present is in the selectable coin list,
\* among the inputs of a Generate request or among the inputs of the
\* Transaction Draft.
C13_SpentCoinsNeverSelectable ==
    /\ \A i \in 1..Len(coins) :
           /\ ~coins[i].coin.spend_info
           /\ coins[i].coin.outpoint \notin SpentOutpoints
    /\ \A k \in 1..Len(pending) :
           pending[k].kind = "create_spend_tx"
               => \A j \in 1..Len(pending[k].inputs) :
                      pending[k].inputs[j] \notin SpentOutpoints
    /\ \A j \in 1..Len(draft.inputs) :
           /\ ~draft.inputs[j].spend_info
           /\ draft.inputs[j].outpoint \notin SpentOutpoints

\* C13 witness: DefineSpend::new was given a spent coin, and a coin has
\* been selected, sent in a request and handed off in the draft
C13_Witness ==
    /\ SpentOutpoints # {}
    /\ Len(draft.inputs) > 0
    /\ generated.some
    /\ AnySelected(coins)

\* C14, as stated: the selectable coins are in ascending order of
\* remaining_sequence(coin, blockheight, timelock), and coins of equal
\* remaining sequence are in descending order of amount.
C14_SortedByRemainingSequence ==
    \A i, j \in 1..Len(coins) :
        i < j =>
            LET ri == remaining_sequence(coins[i].coin, blockheight, timelock)
                rj == remaining_sequence(coins[j].coin, blockheight, timelock)
            IN  \/ ri < rj
                \/ ri = rj /\ BigLeq(coins[j].coin.amount, coins[i].coin.amount)

\* the sum of the amounts of the coins q[i..] whose spend_info is absent
RECURSIVE SumOfUnspentFrom(_, _)
SumOfUnspentFrom(q, i) ==
    IF i > Len(q) THEN <<>>
    ELSE IF q[i].spend_info THEN SumOfUnspentFrom(q, i + 1)
    ELSE BigAdd(q[i].amount, SumOfUnspentFrom(q, i + 1))

\* C15: after every message, balance_available is the sum of the amounts of
\* the coins given to DefineSpend::new whose spend_info is absent.
C15_BalanceIsSumOfUnspent ==
    balance_available = SumOfUnspentFrom(coin_list, 1)

\* C15 witness: a spent coin was given, and recipients were added, a coin
\* toggled, a request answered with a transaction and another with an error
C15_Witness ==
    /\ SpentOutpoints # {}
    /\ balance_available = Big(20000)
    /\ Len(recipients) = 2
    /\ AnySelected(coins)
    /\ generated.some
    /\ warning.some

\* the object DefineSpend::new builds from the arguments it was given
Fresh == DefineSpend_new(descriptor, coin_list, timelock, blockheight)

\* C16: a fresh DefineSpend has exactly one recipient, whose address and
\* amount are empty, no coin selected, an empty feerate, no
\* amount_left_to_select, is_valid and is_duplicate false, no generated
\* transaction and no warning.
C16_FreshStart ==
    /\ Len(Fresh.recipients) = 1
    /\ Fresh.recipients[1].address.value = ""
    /\ Fresh.recipients[1].amount.value = <<>>
    /\ \A i \in 1..Len(Fresh.coins) : ~Fresh.coins[i].selected
    /\ Fresh.feerate.value = <<>>
    /\ ~Fresh.amount_left_to_select.some
    /\ ~Fresh.is_valid
    /\ ~Fresh.is_duplicate
    /\ ~Fresh.generated.some
    /\ ~Fresh.warning.some

\* C16 witness: the state right after DefineSpend::new on three unspent coins
C16_Witness ==
    /\ Self = Fresh
    /\ Len(coins) = 3
    /\ pending = <<>>

\* the request the last Generate dispatched
IssuedRequest == pending'[Len(pending')]

\* C17, as stated: a Generate issued while is_valid is true sends the
\* outpoints of the selected coins and an output map with exactly one entry
\* per recipient, from its address to its amount in satoshis; the addresses
\* of the recipients are pairwise distinct.
C17_RequestCoversRecipients ==
    [][ (Generate /\ is_valid /\ ~panicked') =>
          /\ Len(IssuedRequest.inputs)
                 = Cardinality({ i \in 1..Len(coins) : coins[i].selected })
          /\ \A i \in 1..Len(coins) :
                 coins[i].selected
                     <=> \E j \in 1..Len(IssuedRequest.inputs) :
                             IssuedRequest.inputs[j] = coins[i].coin.outpoint
          /\ Cardinality(DOMAIN IssuedRequest.outputs) = Len(recipients)
          /\ \A i \in 1..Len(recipients) :
                 LET address == Address_from_str(recipients[i].address.value).val
                 IN  /\ address \in DOMAIN IssuedRequest.outputs
                     /\ IssuedRequest.outputs[address]
                            = Recipient_amount(recipients[i]).val
          /\ \A i, j \in 1..Len(recipients) :
                 i # j => Address_from_str(recipients[i].address.value).val
                              # Address_from_str(recipients[j].address.value).val
      ]_vars

\* C18: while is_valid is true the stored feerate text parses to an integer
\* greater than 0, and every Generate request in flight carries a feerate
\* greater than 0.
C18_ValidMeansPositiveFeerate ==
    /\ is_valid => /\ parse_u64(feerate.value).ok
                   /\ parse_u64(feerate.value).val # <<>>
    /\ \A k \in 1..Len(pending) :
           pending[k].kind = "create_spend_tx" => pending[k].feerate_vb # <<>>

\* C18 witness: a request in flight, issued from a valid draft, carries the
\* feerate 1
C18_Witness ==
    /\ is_valid
    /\ Len(pending) = 1
    /\ pending[1].kind = "create_spend_tx"
    /\ pending[1].feerate_vb = Big(1)

\* C19: the handling of a failure answer sets the warning to the error
\* returned, leaves the recipients, the coins and their flags, the feerate,
\* amount_left_to_select, is_valid and is_duplicate as they were, and
\* signals no advance: the answered request leaves the commands in flight
\* and nothing joins them.
C19_FailureKeepsDraft ==
    [][ \A k \in 1..Len(pending), e \in DaemonErrors :
          (pending[k].kind = "create_spend_tx" /\ Psbt(k, Err(e))) =>
              /\ warning' = Some(e)
              /\ UNCHANGED <<recipients, coins, feerate, amount_left_to_select,
                             is_valid, is_duplicate, draft>>
              /\ pending' = RemoveAt(pending, k)
      ]_vars

\* C19 witness: a failure has been answered to a valid draft of two
\* recipients; the draft is still valid and nothing is in flight
C19_Witness ==
    /\ warning = Some("daemon error")
    /\ is_valid
    /\ Len(recipients) = 2
    /\ AnySelected(coins)
    /\ pending = <<>>
    /\ ~generated.some

\* C20, as stated: while the most recent answer of the daemon is a failure
\* (its warning is on display: a feerate edit or a new Generate clears it),
\* DefineSpend holds no generated transaction and apply hands off a draft
\* without one.
C20_FailureLeavesNothingGenerated ==
    warning.some =>
        /\ ~generated.some
        /\ ~DefineSpend_apply(Self, draft).generated.some

\* the number of advance signals among the commands q
NextSignals(q) == Cardinality({ k \in 1..Len(q) : q[k].kind = "Next" })

\* C21: the handling of a success answer stores the transaction returned
\* and signals the advance; no other step signals an advance; so while an
\* advance is signalled DefineSpend holds a transaction, apply followed by
\* SaveSpend::load does not fail, and the stage loaded holds the transaction
\* and the inputs of the draft.
C21_AdvanceCarriesTransaction ==
    /\ [] ( /\ (\E k \in 1..Len(pending) : pending[k].kind = "Next")
                => /\ generated.some
                   /\ ~SaveSpend_load(SaveSpend_new,
                                      DefineSpend_apply(Self, draft)).panicked
            /\ spend.some
                => /\ draft.generated.some
                   /\ spend.val.psbt = draft.generated.val
                   /\ spend.val.coins = draft.inputs )
    /\ [][ /\ \A k \in 1..Len(pending) :
                 \A res \in DaemonAnswers(pending[k]) :
                     (res.ok /\ Psbt(k, res))
                         => /\ generated' = Some(res.val)
                            /\ pending' = RemoveAt(pending, k)
                                            \o << [kind |-> "Next"] >>
           /\ NextSignals(pending') > NextSignals(pending)
                 => \E k \in 1..Len(pending) :
                        \E res \in DaemonAnswers(pending[k]) :
                            res.ok /\ Psbt(k, res) ]_vars

\* C21 witness: SaveSpend::load has run after an advance and holds the
\* transaction generated, with one input
C21_Witness ==
    /\ spend.some
    /\ draft.generated.some
    /\ Len(spend.val.coins) = 1
    /\ pending = <<>>

\* C22, as stated: the inputs of the Transaction Draft are exactly the coins
\* that were flagged selected when the Generate request that produced its
\* transaction was issued, toggles registered while the request was in
\* flight included.
C22_DraftInputsAreRequestInputs ==
    draft.generated.some
        => Outpoints(draft.inputs) = draft.generated.val.inputs

\* C23: every recipient for which valid() holds has an address text that
\* parses and an amount whose validation against that address succeeds; no
\* unwrap or expect has failed; the expects of a Generate issued while
\* is_valid is true would not fail, nor would the unwraps of the estimator.
C23_DefensiveFailuresUnreachable ==
    /\ \A i \in 1..Len(recipients) :
           Recipient_valid(recipients[i])
               => /\ Address_from_str(recipients[i].address.value).ok
                  /\ Recipient_amount(recipients[i]).ok
    /\ ~panicked
    /\ is_valid => ~update_Generate(Self).panicked
    /\ ~DefineSpend_amount_left_to_select(Self, overflow_checks).panicked

\* C23 witness: a Generate has been issued from a valid draft whose two
\* recipients hold a legacy and a witness address and 5,000 satoshis each
C23_Witness ==
    /\ Len(pending) = 1
    /\ pending[1].kind = "create_spend_tx"
    /\ is_valid
    /\ Len(recipients) = 2
    /\ recipients[1].address.value = "1pkh"
    /\ recipients[2].address.value = "bc1qa"
    /\ recipients[1].amount.value = <<"0", ".", "0", "0", "0", "0", "5">>
    /\ Cardinality(DOMAIN pending[1].outputs) = 2

\* the coins of a list of selectable coins, without their flags
CoinsOf(cs) == [i \in 1..Len(cs) |-> cs[i].coin]

\* C25: after every message the coin list holds the coins DefineSpend::new
\* left, in the same order; SelectCoin(i) with an index in range flips the
\* flag of coin i and of no other coin, SelectCoin(i) with an index out of
\* range changes nothing, and no other message changes a flag.
C25_CoinListFixed ==
    /\ [] ( /\ CoinsOf(coins) = CoinsOf(Fresh.coins)
            /\ \A i \in 1..Len(coins) :
                   update_SelectCoin(Self, i, overflow_checks).coins
                       = [coins EXCEPT ![i].selected = ~@]
            /\ update_SelectCoin(Self, Len(coins) + 1, overflow_checks) = Self )
    /\ [][ coins' # coins => \E i \in 1..Len(coins) : SelectCoin(i) ]_vars

\* C25 witness: DefineSpend::new has reordered the two coins it kept, the
\* second of them alone is selected, and a transaction has been handed off
C25_Witness ==
    /\ Len(coins) = 2
    /\ CoinsOf(coins) # UnspentCoins(coin_list)
    /\ ~coins[1].selected
    /\ coins[2].selected
    /\ spend.some
    /\ warning.some

\* the configurations the installer holds: the one DefineConfig keeps, the
\* one in the context, the one bitcoin.conf parses to
KnownConfigs ==
    { opt.val : opt \in { o \in {internal_step.internal_bitcoind_config,
                                 context.internal_bitcoind_config} : o.some } }
        \cup { r.val : r \in { q \in {from_file(conf_file)} : q.ok } }

\* from_ini(to_ini(c)) succeeds with the entries of c, and to_ini(c) has an
\* empty general section and one section per network of c, named after it,
\* with the three keys rpcport, port and prune and no other
RoundTrips(c) ==
    LET conf_ini == to_ini(c)
        back == from_ini(conf_ini)
    IN  /\ back.ok
        /\ back.val.networks = c.networks
        /\ conf_ini.general = <<>>
        /\ Len(conf_ini.sections) = Cardinality(DOMAIN c.networks)
        /\ \A n \in DOMAIN c.networks :
               Cardinality({ i \in 1..Len(conf_ini.sections) :
                               conf_ini.sections[i].name = to_core_arg(n) }) = 1
        /\ \A i \in 1..Len(conf_ini.sections) :
               /\ Len(conf_ini.sections[i].props) = 3
               /\ { conf_ini.sections[i].props[j].key : j \in 1..3 }
                      = {"rpcport", "port", "prune"}

\* C24: every configuration the installer holds round-trips through its INI
\* form: from_ini(to_ini(c)) succeeds and yields the network entries of c,
\* and to_ini(c) has one section per network with exactly the keys rpcport,
\* port and prune, and an empty general section.
C24_ConfigRoundTrips ==
    \A c \in KnownConfigs : RoundTrips(c)

\* C24 witness: DefineConfig has read a file with the smallest and largest
\* values, added an entry for a third network and written the file
C24_Witness ==
    /\ internal_step.internal_bitcoind_config.some
    /\ DOMAIN internal_step.internal_bitcoind_config.val.networks
           = {"testnet", "signet", "regtest"}
    /\ internal_step.internal_bitcoind_config.val.networks["testnet"].rpc_port = 0
    /\ internal_step.internal_bitcoind_config.val.networks["testnet"].p2p_port = 65535
    /\ internal_step.internal_bitcoind_config.val.networks["signet"].prune = <<>>
    /\ conf_file = Some(to_ini(internal_step.internal_bitcoind_config.val))

\* the configuration the arm DefineConfig starts from: the one of the file,
\* the empty one when there is no file
ConfigRead(file) ==
    IF from_file(file).ok THEN from_file(file).val ELSE InternalBitcoindConfig_new

\* what is said of the arm DefineConfig for one step, file and answer of
\* the system, when the file is absent or read
DefineConfigAsClaimed(self, file, binds_rpc, binds_p2p, written) ==
    LET r == InternalBitcoindStep_DefineConfig(self, file, binds_rpc,
                                               binds_p2p, written)
        old == ConfigRead(file).networks
        rpc_port == get_available_port(binds_rpc)
        p2p_port == get_available_port(binds_p2p)
        kept == r.self.internal_bitcoind_config
    IN  /\ kept # self.internal_bitcoind_config =>
               /\ kept.some
               /\ \A n \in DOMAIN old :
                      n \in DOMAIN kept.val.networks /\ kept.val.networks[n] = old[n]
               /\ DOMAIN kept.val.networks = DOMAIN old \cup {self.network}
               /\ self.network \notin DOMAIN old =>
                      /\ kept.val.networks[self.network].rpc_port
                             # kept.val.networks[self.network].p2p_port
                      /\ kept.val.networks[self.network].rpc_port
                             \notin BITCOIND_DEFAULT_PORTS
                      /\ kept.val.networks[self.network].p2p_port
                             \notin BITCOIND_DEFAULT_PORTS
                      /\ kept.val.networks[self.network].prune = Big(PRUNE_DEFAULT)
        /\ r.file # file =>
               /\ r.file = Some(to_ini(kept.val))
               /\ kept # self.internal_bitcoind_config \/ kept = Some(ConfigRead(file))
        /\ ( /\ self.network \notin DOMAIN old
             /\ \/ ~rpc_port.ok
                \/ ~p2p_port.ok
                \/ rpc_port.val = p2p_port.val ) =>
               /\ r.self.error.some
               /\ r.file = file
               /\ kept = self.internal_bitcoind_config
               /\ r.command = None

\* C26: whenever InternalBitcoindStep handles DefineConfig with the file
\* absent or read, an entry it creates for the network has two different
\* ports, none of them in BITCOIND_DEFAULT_PORTS, and prune PRUNE_DEFAULT;
\* when the two ports obtained are equal or one cannot be obtained, the
\* error is set, the file is not written and internal_bitcoind_config is
\* unchanged; the entries the file had are kept as they were.
C26_DefineConfigEntry ==
    (Steps[current] = "internal"
        /\ (from_file(conf_file).ok \/ from_file(conf_file).err = "FileNotFound"))
    => \A binds_rpc \in ConfigBinds, binds_p2p \in ConfigBinds,
          written \in BOOLEAN :
           DefineConfigAsClaimed(internal_step, conf_file, binds_rpc,
                                 binds_p2p, written)

\* C26 witness: DefineConfig has added to the two entries of the file an
\* entry for bitcoin, with the ports obtained after nine ports refused, and
\* the step is asked to define the configuration again
C26_Witness ==
    /\ Steps[current] = "internal"
    /\ internal_step.network = "regtest"
    /\ internal_step.internal_bitcoind_config.some
    /\ DOMAIN internal_step.internal_bitcoind_config.val.networks
           = {"bitcoin", "testnet", "signet"}
    /\ internal_step.internal_bitcoind_config.val.networks["bitcoin"]
           = [rpc_port |-> 40001, p2p_port |-> 40002, prune |-> Big(PRUNE_DEFAULT)]
    /\ conf_file = Some(to_ini(internal_step.internal_bitcoind_config.val))
    /\ \E k \in 1..Len(commands) : commands[k].kind = "DefineConfig"

\* C27: with no command in flight, InternalBitcoindStep::apply does not
\* return true (and so does not write bitcoind_config into the context)
\* while the bitcoind that the Previous message of the step stopped has not
\* been started again.
C27_StoppedBitcoindRestarted ==
    (Steps[current] = "internal" /\ commands = <<>> /\ bitcoind = "stopped")
        => ~InternalBitcoindStep_apply(internal_step, context).result

\* the commands in flight that carry the message of the kind
InFlight(cmds, kind) ==
    Cardinality({ k \in 1..Len(cmds) : cmds[k].kind = kind })

\* C28: InternalBitcoindStep::load dispatches DefineConfig while
\* internal_bitcoind_config is absent, Start when the configuration is
\* present and started is None, and nothing once started holds a result.
\* So a Start in flight finds the configuration DefineConfig stored, a
\* DefineConfig is dispatched only while there is none, a Start only while
\* started is None, and once a start has failed no Start is dispatched.
C28_LoadSequences ==
    /\ [] ( /\ InternalBitcoindStep_load(internal_step) =
                   ( IF ~internal_step.internal_bitcoind_config.some
                     THEN Some([kind |-> "DefineConfig"])
                     ELSE IF internal_step.started = None
                     THEN Some([kind |-> "Start"])
                     ELSE None )
            /\ InFlight(commands, "Start") > 0 =>
                   internal_step.internal_bitcoind_config.some )
    /\ [][ /\ InFlight(commands', "DefineConfig") > InFlight(commands, "DefineConfig")
               => ~internal_step'.internal_bitcoind_config.some
           /\ InFlight(commands', "Start") > InFlight(commands, "Start")
               => /\ internal_step'.internal_bitcoind_config.some
                  /\ internal_step'.started = None
                  /\ ~IsErr(internal_step.started) ]_vars

\* C28 witness: load has dispatched DefineConfig, then Start, the start
\* has failed and the step is shown with no command in flight
C28_Witness ==
    /\ Steps[current] = "internal"
    /\ internal_step.internal_bitcoind_config.some
    /\ IsErr(internal_step.started)
    /\ bitcoind = "running"
    /\ commands = <<>>

\* the context holds the three configurations of the step, present, and is
\* otherwise ctx
HoldsConfigsOf(after, ctx, self) ==
    /\ after.bitcoind_config = self.bitcoind_config
    /\ after.internal_bitcoind_config = self.internal_bitcoind_config
    /\ after.internal_bitcoind_exe_config = self.exe_config
    /\ after.bitcoind_config.some
    /\ after.internal_bitcoind_config.some
    /\ after.internal_bitcoind_exe_config.some
    /\ after.bitcoin_config = ctx.bitcoin_config
    /\ after.bitcoind_is_external = ctx.bitcoind_is_external

\* C29: in every reachable state of InternalBitcoindStep, started =
\* Some(Ok) implies that bitcoind_config, exe_config and
\* internal_bitcoind_config are present; apply returns true exactly when
\* started = Some(Ok) and then copies the three into the context, and when
\* it returns false the context is unchanged; the installer changes the
\* context from this step only that way.
C29_StartedOkHasConfigs ==
    /\ [] ( /\ IsOk(internal_step.started) =>
                   /\ internal_step.bitcoind_config.some
                   /\ internal_step.exe_config.some
                   /\ internal_step.internal_bitcoind_config.some
            /\ InternalBitcoindStep_apply(internal_step, context).result
                   = IsOk(internal_step.started)
            /\ IsOk(internal_step.started) =>
                   HoldsConfigsOf(InternalBitcoindStep_apply(internal_step, context).ctx,
                                  context, internal_step)
            /\ ~IsOk(internal_step.started) =>
                   InternalBitcoindStep_apply(internal_step, context).ctx = context )
    /\ [][ (Steps[current] = "internal" /\ ~IsOk(internal_step.started))
               => (context' = context /\ Steps[current'] # "final") ]_vars
    /\ [][ (Steps[current] = "internal" /\ Steps[current'] = "final")
               => HoldsConfigsOf(context', context, internal_step) ]_vars

\* C29 witness: the start succeeded, apply returned true and the final
\* step is shown with the three configurations in the context
C29_Witness ==
    /\ Steps[current] = "final"
    /\ IsOk(internal_step.started)
    /\ HoldsConfigsOf(context, context, internal_step)
    /\ bitcoind = "running"

\* C30: the Start handler of InternalBitcoindStep never fails an
\* expect("Already added"): when it reads the RPC port,
\* internal_bitcoind_config is present and has an entry for the network of
\* the step.
C30_AlreadyAdded ==
    ~internal_step.panicked

\* C31: in DefineBitcoind, a ping result that sets is_running comes from a
\* ping made with the address and the cookie path entered when it arrives:
\* the command that completes holds the two texts of the step.
C31_ResultOfCurrentValues ==
    [][ ( /\ Steps[current] = "external"
          /\ InFlight(commands', "ping") < InFlight(commands, "ping")
          /\ external_step'.is_running.some )
        => \E k \in 1..Len(commands) :
               /\ commands[k].kind = "ping"
               /\ commands' = RemoveAt(commands, k)
               /\ commands[k].address = external_step'.address.value
               /\ commands[k].cookie_path = external_step'.cookie_path.value ]_vars

C33_ValidHasRecipients ==
    /\ [](is_valid => recipients # <<>>)
    /\ [][ Len(pending') > Len(pending)
           => \A k \in 1..Len(pending') :
                  pending'[k].kind = "create_spend_tx"
                      => DOMAIN pending'[k].outputs # {} ]_vars

\* ------------------------------------------------------------------------
\* C34: for every feerate text the FeerateEdited arm accepts, the estimate's
\* transaction_size * feerate + output_sum stays within the u64 range
\* ------------------------------------------------------------------------
\* the exact value of transaction_size * feerate + output_sum on the coins
\* and recipients of s
NeededAmountExact(s, feerate_vb) ==
    LET selected_coins == SelectedCoins(s.coins)
        outs == TxOuts(ValidRecipients(s.recipients))
    IN  BigAdd(BigMulSmall(feerate_vb,
                   transaction_size(s, Len(selected_coins), outs)),
               SumSeq(OutValues(outs)))

\* C34, as stated: whenever FeerateEdited is handled with a text that parses
\* as a u64, the needed amount the estimator computes from it is within the
\* u64 range: the handler does not abort on an overflow and does not store
\* an amount computed from a wrapped value.
C34_NeededAmountFitsU64 ==
    [][ \A text \in EditFeerateTexts :
            (parse_u64(text).ok /\ FeerateEdited(text))
                => FitsU64(NeededAmountExact(Self, parse_u64(text).val)) ]_vars

====
